---------------------------- MODULE Spec2Model ----------------------------
(***************************************************************************)
(* Model of the Primo sales tracker (src/app.py): the Slack webhook        *)
(* ingester (signature + replay check, dedupe by event id, delete-undo      *)
(* through slack_message_sales) and the CRUD operations that create and    *)
(* remove the rows the ingester works on.                                  *)
(*                                                                         *)
(* Text values that the code inspects character by character (the          *)
(* timestamp header, the signature, the signing secret, the raw body) are  *)
(* sequences of one-character strings.  Identifiers the code only compares *)
(* for equality (event ids, channel ids, message ts) are atomic strings,   *)
(* with "" standing for a missing / None / empty value.                    *)
(***************************************************************************)
EXTENDS Integers, Sequences, FiniteSets, TLC

VARIABLES
    SLACK_SIGNING_SECRET,   \* app.py:61, a sequence of characters
    SLACK_CHANNEL_ID,       \* app.py:62
    SLACK_BOT_TOKEN,        \* app.py:63
    now,                    \* wall clock (time.time()), in ticks of 1/TicksPerSec s
    db_ready,               \* app.py:305 _db_ready
    reps,                   \* table reps
    session,                \* the browser session cookie (flask session)
    sales_entries,          \* table sales_entries
    next_entry_id,          \* BIGSERIAL sequence of sales_entries.id
    slack_message_sales,    \* table slack_message_sales
    slack_processed_events, \* table slack_processed_events
    hook,                   \* the webhook request each worker is handling
    page,                   \* the add-sale request the browser handler is in
    last,                   \* the response just produced (for a webhook, with the
                            \* body it answers), until it is delivered
    vcall,                  \* last direct call of slack_verify_request
    weekly_goals,           \* table weekly_goals
    radius_m,               \* column radius_m of table stores, by store id
    rep_day_locations,      \* table rep_day_locations
    parked,                 \* the session cookie a second browser holds
    toggle,                 \* the admin_toggle_rep request each worker is handling
    goalreq,                \* the get_week_goal_qty call in progress
    pcall                   \* last direct call of a pure function

vars == <<SLACK_SIGNING_SECRET, SLACK_CHANNEL_ID, SLACK_BOT_TOKEN, now, db_ready,
          reps, session, sales_entries, next_entry_id, slack_message_sales,
          slack_processed_events, hook, page, last, vcall, weekly_goals, radius_m,
          rep_day_locations, parked, toggle, goalreq, pcall>>

config == <<SLACK_SIGNING_SECRET, SLACK_CHANNEL_ID, SLACK_BOT_TOKEN>>
tables == <<reps, sales_entries, next_entry_id, slack_message_sales,
            slack_processed_events>>
admin_tables == <<weekly_goals, radius_m, rep_day_locations>>
rest == <<admin_tables, parked, toggle, goalreq, pcall>>

-----------------------------------------------------------------------------
(* Bounds of the model *)

\* hex digits kept of a digest (SHA-256 has 64)
DigestLen == 4
\* clock ticks the model lets pass
MaxTicks == 1
\* rows the sales_entries sequence may hand out
MaxEntries == 2

(* Program constants *)

\* 60 * 5, the replay window in seconds
ReplayWindow == 300
\* clock resolution: time.time() is a float, the header an integer of seconds
TicksPerSec == 2
\* the clock when the model starts, in seconds
T0 == 1000

-----------------------------------------------------------------------------
(* Characters and text *)

Digits == <<"0", "1", "2", "3", "4", "5", "6", "7", "8", "9">>
HexDigits == Digits \o <<"a", "b", "c", "d", "e", "f">>
Alphabet == HexDigits \o <<"v", "=", ":", "+", "-", "_", " ", "x", "u", "p", "t", "r", "s", "m", "n", "o", "l">>

IsDigit(c) == \E i \in 1..10 : Digits[i] = c
DigitVal(c) == (CHOOSE i \in 1..10 : Digits[i] = c) - 1
Code(c) == CHOOSE i \in 1..Len(Alphabet) : Alphabet[i] = c

RECURSIVE SumSeq(_)
SumSeq(s) == IF s = <<>> THEN 0 ELSE Head(s) + SumSeq(Tail(s))

\* str.strip() on a character sequence (blanks only)
RECURSIVE LStrip(_)
LStrip(s) == IF s # <<>> /\ Head(s) = " " THEN LStrip(Tail(s)) ELSE s
RECURSIVE RStrip(_)
RStrip(s) == IF s # <<>> /\ s[Len(s)] = " " THEN RStrip(SubSeq(s, 1, Len(s) - 1)) ELSE s
StripSeq(s) == RStrip(LStrip(s))

\* the decimal value of a sequence of digits and underscores (underscores skipped)
RECURSIVE DigitsValue(_, _)
DigitsValue(s, acc) ==
    IF s = <<>> THEN acc
    ELSE IF Head(s) = "_" THEN DigitsValue(Tail(s), acc)
    ELSE DigitsValue(Tail(s), 10 * acc + DigitVal(Head(s)))

\* Python's int(str): blanks stripped, an optional sign, digits, single
\* underscores between digits.  ok = FALSE is ValueError.
ParseInt(str) ==
    LET s == StripSeq(str)
        signed == s # <<>> /\ Head(s) \in {"+", "-"}
        body == IF signed THEN Tail(s) ELSE s
        wellFormed ==
            /\ body # <<>>
            /\ \A i \in 1..Len(body) : IsDigit(body[i]) \/ body[i] = "_"
            /\ IsDigit(body[1]) /\ IsDigit(body[Len(body)])
            /\ \A i \in 1..(Len(body) - 1) : ~(body[i] = "_" /\ body[i + 1] = "_")
    IN  IF ~wellFormed THEN [ok |-> FALSE, val |-> 0]
        ELSE [ok |-> TRUE,
              val |-> IF signed /\ Head(s) = "-" THEN 0 - DigitsValue(body, 0)
                      ELSE DigitsValue(body, 0)]

Abs(x) == IF x < 0 THEN 0 - x ELSE x

-----------------------------------------------------------------------------
(* hmac.new(key, msg, sha256).hexdigest(): a keyed digest of fixed width.   *)
(* SHA-256 itself is replaced by a positional checksum over the character   *)
(* codes; what the model keeps is that the digest is a function of key and  *)
(* message, DigestLen hex digits long.                                      *)

HmacDigit(key, msg, i) ==
    (SumSeq([k \in 1..Len(key) |-> Code(key[k]) * (k + i)])
     + SumSeq([j \in 1..Len(msg) |-> Code(msg[j]) * (2 * j + i + 1)])
     + 7 * i) % 16

HmacHex(key, msg) == [i \in 1..DigestLen |-> HexDigits[HmacDigit(key, msg, i) + 1]]

\* hmac.compare_digest(a, b): equality of the two strings
MutPrefixCompare(a, b) == Len(a) = Len(b) /\ SubSeq(a, 1, 3) = SubSeq(b, 1, 3)
compare_digest(a, b) == a = b

\* abs(time.time() - ts_int) > 60 * 5, with the clock in ticks
MutStaleInclusive(clock, ts_int) == Abs(clock - ts_int * TicksPerSec) >= ReplayWindow * TicksPerSec
IsStale(clock, ts_int) == Abs(clock - ts_int * TicksPerSec) > ReplayWindow * TicksPerSec

\* f"v0:{ts}:{body}"
SigBase(ts, body) == <<"v", "0", ":">> \o ts \o <<":">> \o body

\* slack_verify_request(req): ts and sig are the two headers ("" when missing),
\* body the raw request body
slack_verify_request(secret, clock, ts, sig, body) ==
    IF secret = <<>> THEN FALSE
    ELSE IF ts = <<>> \/ sig = <<>> THEN FALSE
    ELSE IF ~ParseInt(ts).ok THEN FALSE
    ELSE IF IsStale(clock, ParseInt(ts).val) THEN FALSE
    ELSE compare_digest(<<"v", "0", "=">> \o HmacHex(secret, SigBase(ts, body)), sig)

-----------------------------------------------------------------------------
(* Request bodies.  A raw body is a short character sequence in a compact   *)
(* wire form standing in for the JSON text: <<kind, event id, channel,      *)
(* message>>.  get_json decodes it to the payload dictionary; anything else *)
(* is not JSON and decodes to {} (request.get_json(silent=True) or {}).     *)
(* A missing key, None and "" are all written "".  A body that is JSON but  *)
(* no object (a list, a number, a string) decodes to that value, which has  *)
(* no .get: dict is FALSE for it, and likewise for an "event" that is no    *)
(* object.                                                                  *)

NoEvent == [dict |-> TRUE, subtype |-> "", channel |-> "", user |-> "", ts |-> "",
            thread_ts |-> "", deleted_ts |-> "", prev_ts |-> ""]
EmptyPayload == [dict |-> TRUE, type |-> "", challenge |-> "", event_id |-> "",
                 event |-> NoEvent]

EventIdOf(c) == CASE c = "1" -> "E1" [] c = "2" -> "E2" [] OTHER -> ""
ChannelOf(c) == CASE c = "1" -> "C1" [] c = "2" -> "C2" [] c = "3" -> "C1 " [] OTHER -> ""
MessageOf(c) == CASE c = "1" -> "100.1" [] c = "2" -> "100.2" [] OTHER -> ""
OtherMessage(t) == IF t = "100.1" THEN "100.2" ELSE "100.1"

KindChars == {"u", "p", "t", "r", "s", "m", "d", "e", "n", "o", "l", "b"}

EventOf(kind, ch, ts) ==
    CASE kind = "p" -> [NoEvent EXCEPT !.channel = ch, !.user = "U1", !.ts = ts]
      [] kind = "t" -> [NoEvent EXCEPT !.channel = ch, !.user = "U1", !.ts = ts, !.thread_ts = ts]
      [] kind = "r" -> [NoEvent EXCEPT !.channel = ch, !.user = "U1", !.ts = ts,
                                        !.thread_ts = OtherMessage(ts)]
      [] kind = "s" -> [NoEvent EXCEPT !.channel = ch, !.user = "U9", !.ts = ts]
      [] kind = "m" -> [NoEvent EXCEPT !.subtype = "message_changed", !.channel = ch,
                                        !.user = "U1", !.ts = ts, !.prev_ts = ts]
      [] kind = "d" -> [NoEvent EXCEPT !.subtype = "message_deleted", !.channel = ch,
                                        !.deleted_ts = ts]
      [] kind = "e" -> [NoEvent EXCEPT !.subtype = "message_deleted", !.channel = ch,
                                        !.prev_ts = ts]
      [] kind = "n" -> [NoEvent EXCEPT !.subtype = "message_deleted", !.channel = ch]
      [] kind = "b" -> [NoEvent EXCEPT !.dict = FALSE]
      [] OTHER -> NoEvent

get_json(raw) ==
    IF Len(raw) # 4 \/ raw[1] \notin KindChars THEN EmptyPayload
    ELSE IF raw[1] = "l" THEN [EmptyPayload EXCEPT !.dict = FALSE]
    ELSE IF raw[1] = "u"
         THEN [EmptyPayload EXCEPT !.type = "url_verification",
                                   !.challenge = "ch" \o raw[2]]
         ELSE [dict |-> TRUE, type |-> "event_callback", challenge |-> "",
               event_id |-> EventIdOf(raw[2]),
               event |-> EventOf(raw[1], ChannelOf(raw[3]), MessageOf(raw[4]))]

\* str.strip() on the identifiers the bodies can carry
Strip(s) == IF s = "C1 " THEN "C1" ELSE s

\* the allow-list SLACK_USER_TO_REP, built from SLACK_TRISTAN_ID and its siblings
SLACK_USER_TO_REP == [u \in {"U1"} |-> "Tristan"]

-----------------------------------------------------------------------------
(* Dates.  A date is its proleptic Gregorian ordinal (date.toordinal():     *)
(* 1 is 0001-01-01, a Monday); an ISO date is a sequence of characters.     *)

NoDate == 0

DaysInMonth(y, m) ==
    IF m = 2 THEN (IF y % 4 = 0 /\ (y % 100 # 0 \/ y % 400 = 0) THEN 29 ELSE 28)
    ELSE IF m \in {4, 6, 9, 11} THEN 30 ELSE 31
DaysBeforeYear(y) == (y - 1) * 365 + (y - 1) \div 4 - (y - 1) \div 100 + (y - 1) \div 400
RECURSIVE DaysBeforeMonth(_, _)
DaysBeforeMonth(y, m) ==
    IF m <= 1 THEN 0 ELSE DaysBeforeMonth(y, m - 1) + DaysInMonth(y, m - 1)
ymd2ord(y, m, d) == DaysBeforeYear(y) + DaysBeforeMonth(y, m) + d

\* date.weekday(): Monday is 0, Sunday is 6
weekday(d) == (d + 6) % 7

\* date.fromisoformat on the form YYYY-MM-DD; ValueError is ok = FALSE
fromisoformat(s) ==
    IF /\ Len(s) = 10 /\ s[5] = "-" /\ s[8] = "-"
       /\ \A i \in {1, 2, 3, 4, 6, 7, 9, 10} : IsDigit(s[i])
    THEN LET y == DigitsValue(SubSeq(s, 1, 4), 0)
             m == DigitsValue(SubSeq(s, 6, 7), 0)
             d == DigitsValue(SubSeq(s, 9, 10), 0)
         IN  IF y >= 1 /\ m \in 1..12 /\ d >= 1 /\ d <= DaysInMonth(y, m)
             THEN [ok |-> TRUE, val |-> ymd2ord(y, m, d)]
             ELSE [ok |-> FALSE, val |-> NoDate]
    ELSE [ok |-> FALSE, val |-> NoDate]

\* get_week_start: d - timedelta(days=d.weekday())
get_week_start(d) == d - weekday(d)

\* parse_week_start: None for an empty or unparsable value, else the date as given
parse_week_start(s) ==
    IF s = <<>> THEN NoDate
    ELSE IF fromisoformat(s).ok THEN fromisoformat(s).val ELSE NoDate

\* local_today: the date in the Central time zone; a Wednesday here
local_today == ymd2ord(2024, 1, 3)

-----------------------------------------------------------------------------
(* Tables.  A table is a set of rows; the operators below enforce the       *)
(* constraints of the schema (init_db) the way the statements do.           *)

NoneId == -1

\* hash_password: PBKDF2 with the fixed salt, kept as a tagged value
hash_password(password) == <<"pbkdf2", password>>

\* hmac.compare_digest(hash_password(password), expected_hash_hex)
MutVerifyAlways(password, expected) == TRUE
verify_password(password, expected) == hash_password(password) = expected

DEFAULT_ADMIN_USERNAME == "Tristan"
DEFAULT_ADMIN_PASSWORD == "Primo1234!"
SEED_REPS == <<"Tristan", "Ricky", "Sohaib">>

RepRow(id, username, password, admin) ==
    [id |-> id, username |-> username, password_hash |-> hash_password(password),
     is_admin |-> admin, active |-> TRUE]

\* init_db, the part that seeds reps: the admin first, then SEED_REPS, each only
\* when missing; the admin username is made admin again if it is not
RECURSIVE SeedReps(_, _)
SeedReps(tbl, names) ==
    IF names = <<>> THEN tbl
    ELSE LET uname == Head(names)
             nextId == Cardinality(tbl) + 1
             after ==
                 IF \E r \in tbl : r.username = uname
                 THEN {IF r.username = uname /\ uname = DEFAULT_ADMIN_USERNAME
                       THEN [r EXCEPT !.is_admin = TRUE] ELSE r : r \in tbl}
                 ELSE tbl \cup {RepRow(nextId, uname,
                                       IF uname = DEFAULT_ADMIN_USERNAME
                                       THEN DEFAULT_ADMIN_PASSWORD ELSE "Primo123!",
                                       uname = DEFAULT_ADMIN_USERNAME)}
         IN  SeedReps(after, Tail(names))

init_db(tbl) ==
    LET withAdmin ==
            IF \E r \in tbl : r.username = DEFAULT_ADMIN_USERNAME THEN tbl
            ELSE tbl \cup {RepRow(Cardinality(tbl) + 1, DEFAULT_ADMIN_USERNAME,
                                  DEFAULT_ADMIN_PASSWORD, TRUE)}
    IN  SeedReps(withAdmin, SEED_REPS)

\* ensure_db / the "Ensure DB ready" block of slack_events
EnsuredReps == IF db_ready THEN reps ELSE init_db(reps)

\* the seeded stores: id -> name
Stores == [s \in {1} |-> "Costco - University City"]
\* radius_m of the seeded stores
SeedRadius == 180

\* list_reps(active_only=True), the usernames
ActiveRepNames(tbl) == {r.username : r \in {x \in tbl : x.active}}

\* slack_event_already_processed
slack_event_already_processed(tbl, event_id) ==
    IF event_id = "" THEN FALSE ELSE \E r \in tbl : r.event_id = event_id

\* mark_slack_event_processed: INSERT ... ON CONFLICT DO NOTHING
MutMarkUpsert(tbl, event_id, clock) ==
    IF event_id = "" THEN tbl
    ELSE {r \in tbl : r.event_id # event_id} \cup {[event_id |-> event_id, created_at |-> clock]}
MutMarkSkipped(tbl, event_id, clock) == tbl
mark_slack_event_processed(tbl, event_id, clock) ==
    IF event_id = "" THEN tbl
    ELSE IF \E r \in tbl : r.event_id = event_id THEN tbl
    ELSE tbl \cup {[event_id |-> event_id, created_at |-> clock]}

\* whether the INSERT of mark_slack_event_processed raises UniqueViolation for
\* a row already there: not with ON CONFLICT DO NOTHING
MutMarkRaisesOnConflict(tbl, event_id) ==
    event_id # "" /\ \E r \in tbl : r.event_id = event_id
MarkRaises(tbl, event_id) == FALSE

\* remove_sale_from_slack: one transaction over both tables
LinkRows(links, ch, ts) == {l \in links : l.channel_id = ch /\ l.message_ts = ts}

MutRemoveEntryOnly(entries, links, ch, ts) ==
    IF LinkRows(links, ch, ts) = {} THEN [found |-> FALSE, entries |-> entries, links |-> links]
    ELSE [found |-> TRUE,
          entries |-> {e \in entries : e.id # (CHOOSE l \in LinkRows(links, ch, ts) : TRUE).entry_id},
          links |-> links]
\* faulty variant: the DELETEs go by channel and rep, not by message and id
MutRemoveByChannel(entries, links, ch, ts) ==
    IF LinkRows(links, ch, ts) = {} THEN [found |-> FALSE, entries |-> entries, links |-> links]
    ELSE [found |-> TRUE,
          entries |-> {e \in entries :
                          e.rep # (CHOOSE l \in LinkRows(links, ch, ts) : TRUE).rep},
          links |-> {l \in links : l.channel_id # ch}]
remove_sale_from_slack(entries, links, ch, ts) ==
    IF LinkRows(links, ch, ts) = {} THEN [found |-> FALSE, entries |-> entries, links |-> links]
    ELSE LET entry_id == (CHOOSE l \in LinkRows(links, ch, ts) : TRUE).entry_id
         IN  [found |-> TRUE,
              entries |-> {e \in entries : e.id # entry_id},
              links |-> links \ LinkRows(links, ch, ts)]

-----------------------------------------------------------------------------
(* The environment: Slack signing its requests, the clock, the headers      *)

\* str(n) for n >= 0
RECURSIVE DecStr(_)
DecStr(n) == IF n < 10 THEN <<Digits[n + 1]>> ELSE DecStr(n \div 10) \o <<Digits[(n % 10) + 1]>>

\* the signing secret Slack holds for the app
SlackSecret == <<"a", "b", "c">>

\* the signature Slack sends: "v0=" + hex(HMAC-SHA256(secret, "v0:" + ts + ":" + body))
SlackSign(secret, ts, body) ==
    <<"v", "0", "=">> \o HmacHex(secret, <<"v", "0", ":">> \o ts \o <<":">> \o body)

\* s with the character at position i replaced by c
ReplaceAt(s, i, c) == [s EXCEPT ![i] = c]

\* sig with its last character changed
Forged(sig) == ReplaceAt(sig, Len(sig), IF sig[Len(sig)] = "0" THEN "1" ELSE "0")

StartClock == T0 * TicksPerSec

\* bodies of the webhook requests the model delivers
HookBodies ==
    {<<"d", e, c, t>> : e \in {"1", "2"}, c \in {"1", "2"}, t \in {"1", "2"}}
    \cup {<<"d", "0", "1", "1">>, <<"d", "1", "3", "1">>}
    \cup {<<k, "1", c, "1">> : k \in {"e", "m"}, c \in {"1", "2"}}
    \cup {<<k, "1", "1", "1">> : k \in {"p", "t", "r", "s", "n"}}
    \cup {<<"u", "0", "0", "0">>, <<"o", "1", "0", "0">>, <<"x", "x", "x", "x">>}
    \cup {<<"u", "1", "0", "0">>, <<"o", "0", "1", "1">>}
    \cup {<<"l", "0", "0", "0">>, <<"b", "1", "1", "1">>, <<"p", "1", "0", "1">>}

\* the requests: a body under a fresh timestamp with Slack's signature, the
\* same with a forged signature, and a replay under an old timestamp
HookRequests ==
    UNION {{[raw |-> b, ts |-> DecStr(T0), sig |-> SlackSign(SlackSecret, DecStr(T0), b)],
            [raw |-> b, ts |-> DecStr(T0),
             sig |-> Forged(SlackSign(SlackSecret, DecStr(T0), b))],
            [raw |-> b, ts |-> DecStr(T0 - ReplayWindow - 1),
             sig |-> SlackSign(SlackSecret, DecStr(T0 - ReplayWindow - 1), b)]}
           : b \in HookBodies}

HookWorkers == {"w1", "w2"}
IdleHook == [pc |-> "idle", raw |-> <<>>, ts |-> <<>>, sig |-> <<>>,
             channel_id |-> "", deleted_ts |-> ""]

NoSession == [logged_in |-> FALSE, rep_id |-> 0, rep_name |-> "", is_admin |-> FALSE]
IdlePage == [pc |-> "idle", entry_id |-> 0, rep |-> "", qty |-> 0, ch |-> "", ts |-> ""]
NoAnswer == [handler |-> "none", path |-> "", status |-> 0, reply |-> "", raw |-> <<>>]
Answer(handler, path, status, reply) ==
    [handler |-> handler, path |-> path, status |-> status, reply |-> reply, raw |-> <<>>]

\* index line 1659: current_wk_start
CurrentWeek == get_week_start(local_today)

\* "wk or get_week_start(local_today())" with wk = parse_week_start(week)
SelectedWeek(week_raw) ==
    IF parse_week_start(week_raw) # NoDate THEN parse_week_start(week_raw)
    ELSE get_week_start(local_today)

\* locals of admin_toggle_rep and of get_week_goal_qty between their statements
IdleToggle == [pc |-> "idle", rep_id |-> 0, active |-> FALSE]
IdleGoal == [pc |-> "idle", week_start |-> NoDate]
NoCall == [fn |-> "none"]

-----------------------------------------------------------------------------
(* State after the process has started: nothing served yet, an empty        *)
(* database, the configuration read from the environment.                   *)

InitState ==
    /\ SLACK_BOT_TOKEN = "xoxb"
    /\ now = StartClock
    /\ db_ready = FALSE
    /\ reps = {}
    /\ session = NoSession
    /\ sales_entries = {}
    /\ next_entry_id = 1
    /\ slack_message_sales = {}
    /\ slack_processed_events = {}
    /\ hook = [w \in HookWorkers |-> IdleHook]
    /\ page = IdlePage
    /\ last = NoAnswer
    /\ vcall = [called |-> FALSE, clock |-> 0, ts |-> <<>>, sig |-> <<>>, body |-> <<>>,
                result |-> FALSE]
    /\ weekly_goals = {}
    /\ radius_m = [s \in DOMAIN Stores |-> SeedRadius]
    /\ rep_day_locations = {}
    /\ parked = NoSession
    /\ toggle = [w \in HookWorkers |-> IdleToggle]
    /\ goalreq = IdleGoal
    /\ pcall = NoCall

Init ==
    /\ SLACK_SIGNING_SECRET = SlackSecret
    /\ SLACK_CHANNEL_ID \in {"", "C1"}
    /\ InitState

\* time passes
Tick ==
    /\ last = NoAnswer
    /\ now < StartClock + MaxTicks
    /\ now' = now + 1
    /\ UNCHANGED <<config, db_ready, tables, session, hook, page, last, vcall, rest>>

\* The response in last goes out to the client.  No handler takes a step while
\* a response is held: Deliver changes nothing else, so holding the others back
\* removes no behaviour of the tables, the session or the handlers.
Deliver ==
    /\ last # NoAnswer
    /\ last' = NoAnswer
    /\ UNCHANGED <<config, now, db_ready, tables, session, hook, page, vcall, rest>>

-----------------------------------------------------------------------------
(* slack_events, POST /slack/events                                         *)

\* the message a message_deleted event names: deleted_ts, else previous_message.ts
DeletedTs(event) ==
    IF Strip(event.deleted_ts) # "" THEN Strip(event.deleted_ts) ELSE Strip(event.prev_ts)

\* What slack_events does with an event that passed the dedupe check, as the
\* handler's locals: pc "remove" when it goes on to remove_sale_from_slack(
\* channel_id, deleted_ts), "mark" when it only marks the event processed,
\* "crash" when event.get raises AttributeError (the event is no object).
Locals(pc, channel_id, deleted_ts) ==
    [pc |-> pc, channel_id |-> channel_id, deleted_ts |-> deleted_ts]

\* faulty variant: the channel filter is missing
MutDispatchNoChannelFilter(channel_cfg, event) ==
    IF ~event.dict THEN Locals("crash", "", "")
    ELSE IF event.subtype = "message_changed" THEN Locals("mark", Strip(event.channel), "")
    ELSE IF event.subtype = "message_deleted" /\ DeletedTs(event) # ""
         THEN Locals("remove", Strip(event.channel), DeletedTs(event))
    ELSE Locals("mark", Strip(event.channel), DeletedTs(event))
\* faulty variant: an edit is handled like a deletion of the edited message
MutDispatchEditsRemove(channel_cfg, event) ==
    IF ~event.dict THEN Locals("crash", "", "")
    ELSE IF channel_cfg # "" /\ Strip(event.channel) # channel_cfg
    THEN Locals("mark", Strip(event.channel), "")
    ELSE IF event.subtype \in {"message_deleted", "message_changed"} /\ DeletedTs(event) # ""
         THEN Locals("remove", Strip(event.channel), DeletedTs(event))
    ELSE Locals("mark", Strip(event.channel), DeletedTs(event))
\* faulty variant: every event that is not an edit is handled as the deletion
\* of the message it carries
MutDispatchPostsRemove(channel_cfg, event) ==
    IF ~event.dict THEN Locals("crash", "", "")
    ELSE IF channel_cfg # "" /\ Strip(event.channel) # channel_cfg
    THEN Locals("mark", Strip(event.channel), "")
    ELSE IF event.subtype = "message_changed" THEN Locals("mark", Strip(event.channel), "")
    ELSE IF DeletedTs(event) # ""
         THEN Locals("remove", Strip(event.channel), DeletedTs(event))
    ELSE IF Strip(event.ts) # "" THEN Locals("remove", Strip(event.channel), Strip(event.ts))
    ELSE Locals("mark", Strip(event.channel), "")
Dispatch(channel_cfg, event) ==
    IF ~event.dict THEN Locals("crash", "", "")
    ELSE IF channel_cfg # "" /\ Strip(event.channel) # channel_cfg
    THEN Locals("mark", Strip(event.channel), "")
    ELSE IF event.subtype = "message_changed" THEN Locals("mark", Strip(event.channel), "")
    ELSE IF event.subtype = "message_deleted" /\ DeletedTs(event) # ""
         THEN Locals("remove", Strip(event.channel), DeletedTs(event))
    ELSE Locals("mark", Strip(event.channel), DeletedTs(event))

\* the head of slack_events: handshake, signature, dedupe.  "dispatch" when the
\* handler goes on, else the response it gives at once.
\* faulty variant: the verdict of the verifier is not looked at
MutEntryIgnoresVerdict(payload, verified, processed) ==
    IF ~payload.dict THEN Answer("slack_events", "crashed", 500, "AttributeError")
    ELSE IF payload.type = "url_verification"
    THEN Answer("slack_events", "handshake", 200, payload.challenge)
    ELSE IF processed THEN Answer("slack_events", "duplicate", 200, "ok")
    ELSE Answer("slack_events", "dispatch", 0, "")
\* faulty variant: the dedupe check is missing
MutEntryNoDedupe(payload, verified, processed) ==
    IF ~payload.dict THEN Answer("slack_events", "crashed", 500, "AttributeError")
    ELSE IF payload.type = "url_verification"
    THEN Answer("slack_events", "handshake", 200, payload.challenge)
    ELSE IF ~verified THEN Answer("slack_events", "rejected", 403, "invalid signature")
    ELSE Answer("slack_events", "dispatch", 0, "")
\* faulty variant: the handshake is acknowledged, not echoed
MutEntryHandshakeAcks(payload, verified, processed) ==
    IF ~payload.dict THEN Answer("slack_events", "crashed", 500, "AttributeError")
    ELSE IF payload.type = "url_verification"
    THEN Answer("slack_events", "handshake", 200, "ok")
    ELSE IF ~verified THEN Answer("slack_events", "rejected", 403, "invalid signature")
    ELSE IF processed THEN Answer("slack_events", "duplicate", 200, "ok")
    ELSE Answer("slack_events", "dispatch", 0, "")
SlackEntry(payload, verified, processed) ==
    IF ~payload.dict THEN Answer("slack_events", "crashed", 500, "AttributeError")
    ELSE IF payload.type = "url_verification"
    THEN Answer("slack_events", "handshake", 200, payload.challenge)
    ELSE IF ~verified THEN Answer("slack_events", "rejected", 403, "invalid signature")
    ELSE IF processed THEN Answer("slack_events", "duplicate", 200, "ok")
    ELSE Answer("slack_events", "dispatch", 0, "")

\* a request reaches worker w
SlackArrive(w, requests) ==
    /\ last = NoAnswer
    /\ hook[w].pc = "idle"
    /\ \E req \in requests :
          hook' = [hook EXCEPT ![w] = [IdleHook EXCEPT !.pc = "arrived", !.raw = req.raw,
                                                        !.ts = req.ts, !.sig = req.sig]]
    /\ UNCHANGED <<config, now, db_ready, tables, session, page, last, vcall, rest>>

\* lines 2038-2071: the handler runs up to its first write
SlackHead(w) ==
    /\ last = NoAnswer
    /\ hook[w].pc = "arrived"
    /\ \E payload \in {get_json(hook[w].raw)} :
       \E out \in {SlackEntry(payload,
                              slack_verify_request(SLACK_SIGNING_SECRET, now, hook[w].ts,
                                                   hook[w].sig, hook[w].raw),
                              slack_event_already_processed(slack_processed_events,
                                                            payload.event_id))} :
       \E loc \in {Dispatch(SLACK_CHANNEL_ID, payload.event)} :
          /\ IF out.path = "dispatch" /\ loc.pc = "crash"
             THEN /\ hook' = [hook EXCEPT ![w] = IdleHook]
                  /\ last' = [Answer("slack_events", "crashed", 500, "AttributeError")
                                 EXCEPT !.raw = hook[w].raw]
             ELSE IF out.path = "dispatch"
             THEN /\ hook' = [hook EXCEPT ![w] =
                                 [IdleHook EXCEPT !.pc = loc.pc, !.raw = hook[w].raw,
                                                  !.channel_id = loc.channel_id,
                                                  !.deleted_ts = loc.deleted_ts]]
                  /\ last' = last
             ELSE /\ hook' = [hook EXCEPT ![w] = IdleHook]
                  /\ last' = [out EXCEPT !.raw = hook[w].raw]
          /\ db_ready' = (db_ready \/ out.path \in {"dispatch", "duplicate"})
          /\ reps' = IF out.path \in {"dispatch", "duplicate"} THEN EnsuredReps ELSE reps
    /\ UNCHANGED <<config, now, session, sales_entries, next_entry_id, slack_message_sales,
                   slack_processed_events, page, vcall, rest>>

\* lines 2073-2081: the delete branch runs remove_sale_from_slack
SlackRemove(w) ==
    /\ last = NoAnswer
    /\ hook[w].pc = "remove"
    /\ \E r \in {remove_sale_from_slack(sales_entries, slack_message_sales,
                                        hook[w].channel_id, hook[w].deleted_ts)} :
          /\ sales_entries' = r.entries
          /\ slack_message_sales' = r.links
    /\ hook' = [hook EXCEPT ![w].pc = "mark"]
    /\ UNCHANGED <<config, now, db_ready, reps, session, next_entry_id,
                   slack_processed_events, page, last, vcall, rest>>

\* lines 2063, 2070, 2083, 2086: mark_slack_event_processed, then "ok"
SlackMark(w) ==
    /\ last = NoAnswer
    /\ hook[w].pc = "mark"
    /\ IF MarkRaises(slack_processed_events, get_json(hook[w].raw).event_id)
       THEN /\ UNCHANGED slack_processed_events
            /\ last' = [Answer("slack_events", "conflict", 500, "UniqueViolation")
                           EXCEPT !.raw = hook[w].raw]
       ELSE /\ slack_processed_events' =
                  mark_slack_event_processed(slack_processed_events,
                                             get_json(hook[w].raw).event_id, now)
            /\ last' = [Answer("slack_events", "marked", 200, "ok")
                           EXCEPT !.raw = hook[w].raw]
    /\ hook' = [hook EXCEPT ![w] = IdleHook]
    /\ UNCHANGED <<config, now, db_ready, reps, session, sales_entries, next_entry_id,
                   slack_message_sales, page, vcall, rest>>

\* a statement of remove_sale_from_slack or mark_slack_event_processed raises
\* (the database is unavailable): the transaction rolls back, Flask answers 500
\* faulty variant: the event is recorded although the dispatch failed
MutFailureMarks(w) ==
    /\ last = NoAnswer
    /\ hook[w].pc \in {"remove", "mark"}
    /\ hook' = [hook EXCEPT ![w] = IdleHook]
    /\ last' = [Answer("slack_events", "failed", 500, "error") EXCEPT !.raw = hook[w].raw]
    /\ slack_processed_events' =
          mark_slack_event_processed(slack_processed_events,
                                     get_json(hook[w].raw).event_id, now)
    /\ UNCHANGED <<config, now, db_ready, reps, sales_entries, next_entry_id,
                   slack_message_sales, session, page, vcall, rest>>
SlackPersistenceFails(w) ==
    /\ last = NoAnswer
    /\ hook[w].pc \in {"remove", "mark"}
    /\ hook' = [hook EXCEPT ![w] = IdleHook]
    /\ last' = [Answer("slack_events", "failed", 500, "error") EXCEPT !.raw = hook[w].raw]
    /\ UNCHANGED <<config, now, db_ready, tables, session, page, vcall, rest>>

-----------------------------------------------------------------------------
(* The browser side: login, index (add, reset), admin delete                *)

is_logged_in == session.logged_in /\ session.rep_id # 0
is_admin == session.is_admin

LoginNames == {"Tristan", "nobody"}
LoginPasswords == {"Primo1234!", "Primo123!"}

\* login, POST /login
Login(username, password) ==
    /\ last = NoAnswer
    /\ page.pc = "idle"
    /\ \E found \in {{r \in EnsuredReps : r.username = username}} :
       \E okay \in {/\ found # {}
                    /\ \A r \in found : r.active /\ verify_password(password, r.password_hash)} :
          /\ session' = IF okay
                        THEN LET r == CHOOSE x \in found : TRUE
                             IN  [logged_in |-> TRUE, rep_id |-> r.id,
                                  rep_name |-> r.username, is_admin |-> r.is_admin]
                        ELSE session
          /\ last' = IF okay THEN Answer("login", "done", 302, "")
                     ELSE Answer("login", "failed", 200, "error")
    /\ reps' = EnsuredReps
    /\ db_ready' = TRUE
    /\ UNCHANGED <<config, now, sales_entries, next_entry_id, slack_message_sales,
                   slack_processed_events, hook, page, vcall, rest>>

AddReps == {""}
AddQtys == {0, 1}
AddStores == {1, 9}

\* add_entry_manual up to its first commit: the checks that raise ValueError
AddRejected(tbl, rep, qty, store_id) ==
    \/ qty <= 0
    \/ rep = ""
    \/ (rep \notin ActiveRepNames(tbl) /\ ~is_admin)
    \/ (store_id # NoneId /\ store_id \notin DOMAIN Stores)

AddFailed == "Could not add sale. Qty must be >0 and you must select a store."

\* index, POST / with action=add: require_login, then add_entry_manual's INSERT
IndexAdd(week_raw, rep_form, qty, store_id) ==
    /\ last = NoAnswer
    /\ page.pc = "idle"
    /\ db_ready' = TRUE
    /\ reps' = EnsuredReps
    /\ \E rep \in {IF rep_form # "" THEN rep_form ELSE session.rep_name} :
          IF ~is_logged_in
          THEN /\ last' = Answer("index_add", "login_required", 302, "")
               /\ UNCHANGED <<sales_entries, next_entry_id, page>>
          ELSE IF AddRejected(EnsuredReps, rep, qty, store_id)
          THEN /\ last' = Answer("index_add", "failed", 302, AddFailed)
               /\ UNCHANGED <<sales_entries, next_entry_id, page>>
          ELSE /\ next_entry_id <= MaxEntries
               /\ sales_entries' = sales_entries \cup
                     {[id |-> next_entry_id, week_start |-> SelectedWeek(week_raw), rep |-> rep,
                       qty |-> qty, store_id |-> store_id,
                       note |-> IF store_id = NoneId THEN "" ELSE Stores[store_id],
                       slack_channel |-> "", slack_ts |-> ""]}
               /\ next_entry_id' = next_entry_id + 1
               /\ page' = [IdlePage EXCEPT !.pc = "post", !.entry_id = next_entry_id,
                                           !.rep = rep, !.qty = qty]
               /\ last' = last
    /\ UNCHANGED <<config, now, session, slack_message_sales, slack_processed_events,
                   hook, vcall, rest>>

\* what chat.postMessage answers with: the channel and ts of the new message
PostedChannels == {"C1", "C2"}
PostedMessages == {"100.1"}

\* slack_post_sale: (None, None) without token or channel, on an exception or
\* when Slack answers ok=false; else the coordinates Slack returns
\* faulty variant: a failed post undoes the INSERT and fails the request
MutPostFailureUndoesAdd(messages) ==
    /\ last = NoAnswer
    /\ page.pc = "post"
    /\ \/ /\ page' = IdlePage
          /\ sales_entries' = {e \in sales_entries : e.id # page.entry_id}
          /\ last' = Answer("index_add", "failed", 302, AddFailed)
       \/ /\ SLACK_BOT_TOKEN # "" /\ SLACK_CHANNEL_ID # ""
          /\ \E ch \in PostedChannels, ts \in messages :
                page' = [page EXCEPT !.pc = "link", !.ch = ch, !.ts = ts]
          /\ UNCHANGED <<sales_entries, last>>
    /\ UNCHANGED <<config, now, db_ready, reps, next_entry_id, slack_message_sales,
                   slack_processed_events, session, hook, vcall, rest>>
AddPost(messages) ==
    /\ last = NoAnswer
    /\ page.pc = "post"
    /\ \/ /\ page' = IdlePage
          /\ last' = Answer("index_add", "added", 302, "Slack post not sent")
       \/ /\ SLACK_BOT_TOKEN # "" /\ SLACK_CHANNEL_ID # ""
          /\ \E ch \in PostedChannels, ts \in messages :
                page' = [page EXCEPT !.pc = "link", !.ch = ch, !.ts = ts]
          /\ last' = last
    /\ UNCHANGED <<config, now, db_ready, tables, session, hook, vcall, rest>>

\* INSERT INTO slack_message_sales ... ON CONFLICT DO NOTHING: the primary key
\* is (channel_id, message_ts)
MutLinkUpsert(links, row) ==
    (links \ LinkRows(links, row.channel_id, row.message_ts)) \cup {row}
insert_link(links, row) ==
    IF LinkRows(links, row.channel_id, row.message_ts) # {} THEN links
    ELSE links \cup {row}

\* add_entry_manual lines 666-679: UPDATE sales_entries, INSERT the link row
\* ON CONFLICT DO NOTHING, commit.  The unique index ux_sales_slack_msg makes
\* the UPDATE raise when another entry already carries the coordinates.
AddLink ==
    /\ last = NoAnswer
    /\ page.pc = "link"
    /\ IF \E e \in sales_entries :
             e.id # page.entry_id /\ e.slack_channel = page.ch /\ e.slack_ts = page.ts
       THEN /\ last' = Answer("index_add", "failed", 302, AddFailed)
            /\ UNCHANGED <<sales_entries, slack_message_sales>>
       ELSE /\ sales_entries' =
                  {IF e.id = page.entry_id
                   THEN [e EXCEPT !.slack_channel = page.ch, !.slack_ts = page.ts]
                   ELSE e : e \in sales_entries}
            /\ slack_message_sales' =
                  insert_link(slack_message_sales,
                              [channel_id |-> page.ch, message_ts |-> page.ts,
                               entry_id |-> page.entry_id, rep |-> page.rep,
                               qty |-> page.qty])
            /\ last' = Answer("index_add", "added", 302, "")
    /\ page' = IdlePage
    /\ UNCHANGED <<config, now, db_ready, reps, next_entry_id, session,
                   slack_processed_events, hook, vcall, rest>>

\* delete_entry
delete_entry(entries, entry_id) == {e \in entries : e.id # entry_id}

\* admin_delete, POST /admin/delete
AdminDelete(entry_id) ==
    /\ last = NoAnswer
    /\ db_ready' = TRUE
    /\ reps' = EnsuredReps
    /\ IF ~is_logged_in
       THEN /\ last' = Answer("admin_delete", "login_required", 302, "")
            /\ UNCHANGED sales_entries
       ELSE IF ~is_admin
       THEN /\ last' = Answer("admin_delete", "forbidden", 403, "")
            /\ UNCHANGED sales_entries
       ELSE /\ sales_entries' = delete_entry(sales_entries, entry_id)
            /\ last' = Answer("admin_delete", "done", 302, "")
    /\ UNCHANGED <<config, now, session, next_entry_id, slack_message_sales,
                   slack_processed_events, hook, page, vcall, rest>>

\* index, POST / with action=reset
IndexReset(week_raw) ==
    /\ last = NoAnswer
    /\ db_ready' = TRUE
    /\ reps' = EnsuredReps
    /\ IF ~is_logged_in
       THEN /\ last' = Answer("index_reset", "login_required", 302, "")
            /\ UNCHANGED sales_entries
       ELSE IF ~is_admin
       THEN /\ last' = Answer("index_reset", "forbidden", 302, "Admins only.")
            /\ UNCHANGED sales_entries
       ELSE /\ sales_entries' = {e \in sales_entries : e.week_start # SelectedWeek(week_raw)}
            /\ last' = Answer("index_reset", "done", 302, "Reset complete.")
    /\ UNCHANGED <<config, now, session, next_entry_id, slack_message_sales,
                   slack_processed_events, hook, page, vcall, rest>>

-----------------------------------------------------------------------------
\* The clock stands still here: no handler of this specification reads it
\* but the verifier, whose window SpecVerify covers, and the timestamps of
\* slack_processed_events, which SpecRace covers.
Next ==
    \/ Deliver
    \/ SlackArrive("w1", HookRequests)
    \/ SlackHead("w1")
    \/ SlackRemove("w1")
    \/ SlackMark("w1")
    \/ SlackPersistenceFails("w1")
    \/ \E u \in LoginNames, p \in LoginPasswords : Login(u, p)
    \/ \E r \in AddReps, q \in AddQtys, s \in AddStores : IndexAdd(<<>>, r, q, s)
    \/ AddPost(PostedMessages)
    \/ AddLink
    \/ \E id \in 1..MaxEntries : AdminDelete(id)
    \/ IndexReset(<<>>)

Spec == Init /\ [][Next]_vars

-----------------------------------------------------------------------------
(* slack_verify_request on its own: every header, signature and body of the *)
(* sets below is put to the verifier, at every clock value.                 *)

VerifyOffsets == {0 - ReplayWindow - 1, 0 - ReplayWindow, 1 - ReplayWindow, 0,
                  ReplayWindow - 1, ReplayWindow, ReplayWindow + 1}
VerifyTimestamps ==
    {DecStr(T0 + d) : d \in VerifyOffsets}
    \cup {<<>>, <<"1", "2", "x">>, <<"+">> \o DecStr(T0), <<"1", "_", "0", "0", "0">>,
          <<" ">> \o DecStr(T0 - ReplayWindow)}
VerifyBodies == {<<>>, <<"d", "1", "1", "1">>, <<"x">>}
FlipChars == {"0", "v", "f"}
SingleFlips(sig) ==
    {ReplaceAt(sig, i, c) : i \in 1..Len(sig), c \in FlipChars} \ {sig}
VerifySignatures(ts, body) ==
    {SlackSign(SlackSecret, ts, body), <<>>,
     SubSeq(SlackSign(SlackSecret, ts, body), 1, 2 + DigestLen),
     SlackSign(SlackSecret, ts, body) \o <<"0">>,
     SlackSign(<<"a", "b">>, ts, body)}
    \cup SingleFlips(SlackSign(SlackSecret, ts, body))
VerifyRequests ==
    UNION {{[ts |-> ts, body |-> body, sig |-> sig] : sig \in VerifySignatures(ts, body)}
           : ts \in VerifyTimestamps, body \in VerifyBodies}

InitVerify ==
    /\ SLACK_SIGNING_SECRET \in {<<>>, SlackSecret}
    /\ SLACK_CHANNEL_ID = "C1"
    /\ InitState

VerifyCall ==
    /\ ~vcall.called
    /\ \E req \in VerifyRequests :
          vcall' = [called |-> TRUE, clock |-> now, ts |-> req.ts, sig |-> req.sig,
                    body |-> req.body,
                    result |-> slack_verify_request(SLACK_SIGNING_SECRET, now,
                                                    req.ts, req.sig, req.body)]
    /\ UNCHANGED <<config, now, db_ready, tables, session, hook, page, last, rest>>

NextVerify == Tick \/ VerifyCall

SpecVerify == InitVerify /\ [][NextVerify]_vars

-----------------------------------------------------------------------------
(* Two workers serving webhook deliveries at once: the deliveries of a few  *)
(* envelopes, and the browser requests that create the rows they act on.    *)

RaceBodies == {<<"d", "1", "1", "1">>, <<"d", "2", "1", "1">>, <<"p", "1", "1", "1">>}
RaceRequests ==
    {[raw |-> b, ts |-> DecStr(T0), sig |-> SlackSign(SlackSecret, DecStr(T0), b)]
     : b \in RaceBodies}

NextRace ==
    \/ Tick
    \/ Deliver
    \/ \E w \in HookWorkers : SlackArrive(w, RaceRequests)
    \/ \E w \in HookWorkers : SlackHead(w)
    \/ \E w \in HookWorkers : SlackRemove(w)
    \/ \E w \in HookWorkers : SlackMark(w)
    \/ \E w \in HookWorkers : SlackPersistenceFails(w)
    \/ Login("Tristan", "Primo1234!")
    \/ IndexAdd(<<>>, "", 1, 1)
    \/ AddPost(PostedMessages)
    \/ AddLink

SpecRace == Init /\ [][NextRace]_vars

-----------------------------------------------------------------------------
(* The sales rows and their link rows: adds whose Slack post lands in       *)
(* either channel under either message id, admin delete, week reset, and    *)
(* message_deleted events for each of those messages.  The envelopes carry  *)
(* no event id, so none of them is ever a duplicate.                        *)

SalesMessages == {"100.1", "100.2"}
SalesBodies == {<<"d", "0", c, t>> : c \in {"1", "2"}, t \in {"1", "2"}}
SalesRequests ==
    {[raw |-> b, ts |-> DecStr(T0), sig |-> SlackSign(SlackSecret, DecStr(T0), b)]
     : b \in SalesBodies}

NextSales ==
    \/ Deliver
    \/ SlackArrive("w1", SalesRequests)
    \/ SlackHead("w1")
    \/ SlackRemove("w1")
    \/ SlackMark("w1")
    \/ SlackPersistenceFails("w1")
    \/ Login("Tristan", "Primo1234!")
    \/ IndexAdd(<<>>, "", 1, 1)
    \/ AddPost(SalesMessages)
    \/ AddLink
    \/ \E id \in 1..MaxEntries : AdminDelete(id)
    \/ IndexReset(<<>>)

SpecSales == Init /\ [][NextSales]_vars

-----------------------------------------------------------------------------
(* Properties                                                               *)

ProcessedIds == {r.event_id : r \in slack_processed_events}
HookPayload(w) == get_json(hook[w].raw)
HookEvent(w) == get_json(hook[w].raw).event
AnsweredEvent == get_json(last.raw).event

\* worker w runs the head of slack_events in this step
HeadStep(w) == hook[w].pc = "arrived" /\ hook'[w].pc # "arrived"
\* worker w takes a step of the handler in this step
HandlerStep(w) == hook[w].pc # "idle" /\ hook'[w] # hook[w]
\* worker w finishes its request with a 200 in this step
FinishStep(w) ==
    /\ hook[w].pc \in {"remove", "mark"} /\ hook'[w].pc = "idle"
    /\ last'.handler = "slack_events" /\ last'.status = 200
\* the verifier's verdict on the request worker w holds
Accepts(w) ==
    slack_verify_request(SLACK_SIGNING_SECRET, now, hook[w].ts, hook[w].sig, hook[w].raw)
\* the handler of worker w puts its request before the verifier
Verifies(w) == HookPayload(w).dict /\ HookPayload(w).type # "url_verification"

\* a and b have the same length and differ in exactly one position
OneCharApart(a, b) ==
    /\ Len(a) = Len(b)
    /\ Cardinality({i \in 1..Len(a) : a[i] # b[i]}) = 1

\* the header parses and lies within the replay window of the clock
FreshAt(clock, ts) ==
    /\ ParseInt(ts).ok
    /\ Abs(clock - ParseInt(ts).val * TicksPerSec) <= ReplayWindow * TicksPerSec

\* C1: with a non-empty secret and a fresh timestamp, slack_verify_request
\* accepts the signature "v0=" + hex(HMAC(secret, "v0:" + timestamp + ":" + body))
\* and rejects every signature that differs from it in one character.
C1_AcceptsExactlyTheSignature ==
    (vcall.called /\ SLACK_SIGNING_SECRET # <<>> /\ FreshAt(vcall.clock, vcall.ts)) =>
        /\ vcall.sig = SlackSign(SLACK_SIGNING_SECRET, vcall.ts, vcall.body) => vcall.result
        /\ OneCharApart(vcall.sig, SlackSign(SLACK_SIGNING_SECRET, vcall.ts, vcall.body))
              => ~vcall.result

C1_Witness ==
    /\ vcall.called /\ SLACK_SIGNING_SECRET # <<>> /\ FreshAt(vcall.clock, vcall.ts)
    /\ OneCharApart(vcall.sig, SlackSign(SLACK_SIGNING_SECRET, vcall.ts, vcall.body))
    /\ vcall.sig[Len(vcall.sig)] # SlackSign(SLACK_SIGNING_SECRET, vcall.ts, vcall.body)[Len(vcall.sig)]
    /\ ~vcall.result

\* C2: a timestamp more than 300 seconds before or after the clock is rejected
\* whatever the signature, a correct one too; at exactly 300 seconds the
\* request with the correct signature is accepted.
C2_ReplayWindow ==
    (vcall.called /\ ParseInt(vcall.ts).ok) =>
        /\ Abs(vcall.clock - ParseInt(vcall.ts).val * TicksPerSec) > ReplayWindow * TicksPerSec
              => ~vcall.result
        /\ ( /\ Abs(vcall.clock - ParseInt(vcall.ts).val * TicksPerSec)
                   = ReplayWindow * TicksPerSec
             /\ SLACK_SIGNING_SECRET # <<>>
             /\ vcall.sig = SlackSign(SLACK_SIGNING_SECRET, vcall.ts, vcall.body) )
              => vcall.result

C2_Witness ==
    /\ vcall.called /\ SLACK_SIGNING_SECRET # <<>>
    /\ vcall.ts = DecStr(T0 - ReplayWindow - 1)
    /\ vcall.sig = SlackSign(SLACK_SIGNING_SECRET, vcall.ts, vcall.body)
    /\ ~vcall.result

\* C3: when the verifier rejects the request, slack_events answers 401 or 403
\* and no table changes.
C3_RejectedChangesNothing ==
    [][\A w \in HookWorkers :
          (HeadStep(w) /\ Verifies(w) /\ ~Accepts(w)) =>
              /\ last'.handler = "slack_events" /\ last'.status \in {401, 403}
              /\ hook'[w] = IdleHook
              /\ UNCHANGED tables]_vars

C3_Witness ==
    /\ last.handler = "slack_events" /\ last.path = "rejected" /\ last.status = 403
    /\ get_json(last.raw).event.subtype = "message_deleted"
    /\ LinkRows(slack_message_sales, Strip(AnsweredEvent.channel), DeletedTs(AnsweredEvent)) # {}

\* C4: an authenticated request whose event id is already in
\* slack_processed_events is answered 200 at once; the handler takes no further
\* step and no sales entry, link row or processed-event row changes.
C4_DuplicateShortCircuits ==
    [][\A w \in HookWorkers :
          ( /\ HeadStep(w) /\ Verifies(w) /\ Accepts(w)
            /\ HookPayload(w).event_id # ""
            /\ HookPayload(w).event_id \in ProcessedIds ) =>
              /\ last'.handler = "slack_events" /\ last'.status = 200
              /\ hook'[w] = IdleHook
              /\ UNCHANGED <<sales_entries, next_entry_id, slack_message_sales,
                             slack_processed_events>>]_vars

C4_Witness ==
    /\ last.handler = "slack_events" /\ last.path = "duplicate" /\ last.status = 200
    /\ get_json(last.raw).event_id \in ProcessedIds
    /\ AnsweredEvent.subtype = "message_deleted"
    /\ LinkRows(slack_message_sales, Strip(AnsweredEvent.channel), DeletedTs(AnsweredEvent)) # {}

\* C5: slack_processed_events holds each event id at most once, and a row once
\* inserted is never changed or removed, whatever deliveries and redeliveries
\* are handled, one after another or at once.
C5_ProcessedInsertedOnce ==
    [][ /\ \A r \in slack_processed_events : r \in slack_processed_events'
        /\ \A r1, r2 \in slack_processed_events' :
              r1.event_id = r2.event_id => r1 = r2 ]_vars

C5_Witness ==
    /\ last.handler = "slack_events" /\ last.path = "marked"
    /\ slack_processed_events # {}
    /\ \A r \in slack_processed_events :
          r.event_id = get_json(last.raw).event_id /\ r.created_at < now

\* C6: when slack_events finishes the dispatch of an authenticated event with
\* a 200 (a removal or a filtered no-op alike), the event's identifier is in
\* slack_processed_events, so the next delivery of the envelope is a duplicate.
C6_DispatchedEventIsMarked ==
    [][\A w \in HookWorkers :
          (FinishStep(w) /\ HookPayload(w).event_id # "") =>
              /\ HookPayload(w).event_id \in ProcessedIds'
              /\ slack_event_already_processed(slack_processed_events',
                                               HookPayload(w).event_id)]_vars

C6_Witness ==
    /\ last.handler = "slack_events" /\ last.path = "marked" /\ last.status = 200
    /\ get_json(last.raw).event_id \in ProcessedIds
    /\ AnsweredEvent.subtype = ""
    /\ sales_entries # {}

\* a message-posted event that passes the business filters: the sender is on
\* the allow-list and the message is a top-level post
IsQualifyingPost(event) ==
    /\ event.subtype = "" /\ event.ts # ""
    /\ event.user \in DOMAIN SLACK_USER_TO_REP
    /\ event.thread_ts \in {"", event.ts}

\* a message-posted event that fails a business filter
IsFilteredPost(event) ==
    /\ event.subtype = "" /\ event.ts # ""
    /\ \/ event.user \notin DOMAIN SLACK_USER_TO_REP
       \/ event.thread_ts \notin {"", event.ts}

C8_FilteredPostCreatesNothing ==
    [][\A w \in HookWorkers :
          (HandlerStep(w) /\ Verifies(w) /\ IsFilteredPost(HookEvent(w))) =>
              UNCHANGED <<sales_entries, next_entry_id, slack_message_sales>>]_vars

C8_Witness ==
    /\ last.handler = "slack_events" /\ last.path = "marked" /\ last.status = 200
    /\ IsFilteredPost(AnsweredEvent)
    /\ AnsweredEvent.user \notin DOMAIN SLACK_USER_TO_REP
    /\ LinkRows(slack_message_sales, Strip(AnsweredEvent.channel), AnsweredEvent.ts) # {}

\* C9: no step of slack_events on a message_changed event changes
\* sales_entries or slack_message_sales.
C9_EditIgnored ==
    [][\A w \in HookWorkers :
          (HandlerStep(w) /\ Verifies(w) /\ HookEvent(w).subtype = "message_changed") =>
              UNCHANGED <<sales_entries, next_entry_id, slack_message_sales>>]_vars

C9_Witness ==
    /\ last.handler = "slack_events" /\ last.path = "marked" /\ last.status = 200
    /\ AnsweredEvent.subtype = "message_changed"
    /\ Strip(AnsweredEvent.channel) = SLACK_CHANNEL_ID
    /\ LinkRows(slack_message_sales, Strip(AnsweredEvent.channel), DeletedTs(AnsweredEvent)) # {}

\* the event passes the channel filter of slack_events
Watched(event) == SLACK_CHANNEL_ID = "" \/ Strip(event.channel) = SLACK_CHANNEL_ID

\* the removing transaction of worker w: with a link row for (channel, message)
\* the row and the entry it names go in this one step, without one nothing
\* changes
RemovesBoth(w) ==
    LET rows == LinkRows(slack_message_sales, Strip(HookEvent(w).channel),
                         DeletedTs(HookEvent(w)))
    IN  IF rows # {}
        THEN /\ LinkRows(slack_message_sales', Strip(HookEvent(w).channel),
                         DeletedTs(HookEvent(w))) = {}
             /\ \A l \in rows : \A e \in sales_entries' : e.id # l.entry_id
        ELSE UNCHANGED <<sales_entries, slack_message_sales>>

\* a step of worker w that takes a link row or an entry away takes away a link
\* row together with the entry it names
NoHalfRemoval(w) ==
    (sales_entries' # sales_entries \/ slack_message_sales' # slack_message_sales) =>
        \E l \in slack_message_sales :
           /\ l \notin slack_message_sales'
           /\ \A e \in sales_entries' : e.id # l.entry_id

SamePair(l1, l2) == l1.channel_id = l2.channel_id /\ l1.message_ts = l2.message_ts

\* C12: slack_message_sales holds at most one row per (channel_id,
\* message_ts); a row once there keeps its entry_id as long as it is there, and
\* the insert of add_entry_manual for a pair that has a row changes nothing
\* and raises nothing.
C12_OneLinkPerMessage ==
    [][ /\ \A l1, l2 \in slack_message_sales' : SamePair(l1, l2) => l1 = l2
        /\ \A l1 \in slack_message_sales : \A l2 \in slack_message_sales' :
              SamePair(l1, l2) => l1 = l2
        /\ ( /\ page.pc = "link" /\ page'.pc = "idle"
             /\ LinkRows(slack_message_sales, page.ch, page.ts) # {}
             /\ \A e \in sales_entries :
                   e.id = page.entry_id \/ e.slack_channel # page.ch \/ e.slack_ts # page.ts )
              => /\ slack_message_sales' = slack_message_sales
                 /\ last'.path = "added" ]_vars

C12_Witness ==
    /\ last.handler = "index_add" /\ last.path = "added"
    /\ \E l \in slack_message_sales : \E e \in sales_entries :
          /\ e.slack_channel = l.channel_id /\ e.slack_ts = l.message_ts
          /\ e.id # l.entry_id

\* C13, as claimed: in no committed state does a sales entry exist whose Slack
\* message has been posted while the link row for that message is missing.
\* page.pc = "link" is the state after slack_post_sale returned the message's
\* coordinates and before the transaction that stores them.
C13_PostedEntryIsLinked ==
    \A e \in sales_entries :
       (page.pc = "link" /\ page.entry_id = e.id) =>
           \E l \in slack_message_sales :
              /\ l.channel_id = page.ch /\ l.message_ts = page.ts
              /\ l.entry_id = e.id

\* C14, as claimed: every row of slack_message_sales names, by entry_id, a row
\* of sales_entries.
C14_NoDanglingLink ==
    \A l \in slack_message_sales : \E e \in sales_entries : e.id = l.entry_id

\* C15: when a statement of the dispatch raises, the request ends in a 5xx,
\* the failing transaction leaves no trace, the event id is not in
\* slack_processed_events, and the next authenticated delivery of the envelope
\* is dispatched again.
C15_FailedDispatchIsRetried ==
    [][\A w \in HookWorkers :
          ( /\ hook[w].pc \in {"remove", "mark"} /\ hook'[w].pc = "idle"
            /\ last'.path = "failed" ) =>
              /\ last'.handler = "slack_events" /\ last'.status \in 500..599
              /\ UNCHANGED <<sales_entries, slack_message_sales, slack_processed_events>>
              /\ HookPayload(w).event_id \notin ProcessedIds'
              /\ SlackEntry(HookPayload(w), TRUE,
                            slack_event_already_processed(slack_processed_events',
                                                          HookPayload(w).event_id)).path
                    = "dispatch"]_vars

C15_Witness ==
    /\ last.handler = "slack_events" /\ last.path = "failed" /\ last.status = 500
    /\ AnsweredEvent.subtype = "message_deleted"
    /\ get_json(last.raw).event_id # ""
    /\ get_json(last.raw).event_id \notin ProcessedIds
    /\ LinkRows(slack_message_sales, Strip(AnsweredEvent.channel), DeletedTs(AnsweredEvent)) # {}
    /\ Watched(AnsweredEvent)

\* C16: when slack_post_sale returns (None, None), the add ends as a success:
\* the request is answered "added", sales_entries keeps the new row, no link
\* row names the new entry; and without a token or a channel the post does not
\* happen.
C16_PostFailureKeepsEntry ==
    [][ /\ (page.pc = "post" /\ page'.pc = "idle") =>
              /\ last'.handler = "index_add" /\ last'.path = "added"
              /\ UNCHANGED <<sales_entries, next_entry_id, slack_message_sales>>
              /\ \A l \in slack_message_sales' : l.entry_id # page.entry_id
        /\ (page.pc = "post" /\ page'.pc = "link") =>
              (SLACK_BOT_TOKEN # "" /\ SLACK_CHANNEL_ID # "") ]_vars

C16_Witness ==
    /\ last.handler = "index_add" /\ last.path = "added"
    /\ last.reply = "Slack post not sent"
    /\ SLACK_CHANNEL_ID # ""
    /\ \E e \in sales_entries :
          /\ e.id = next_entry_id - 1 /\ e.slack_channel = "" /\ e.slack_ts = ""
          /\ \A l \in slack_message_sales : l.entry_id # e.id

\* C17, as claimed: a request the verifier does not accept (timestamp or
\* signature missing, stale or wrong) is answered 401 or 403, whatever its
\* body, a url_verification body too.
C17_UnverifiedIsRefused ==
    [][\A w \in HookWorkers :
          (HeadStep(w) /\ ~Accepts(w)) =>
              /\ last'.handler = "slack_events"
              /\ last'.status \in {401, 403}]_vars

\* C18: a url_verification payload is answered 200 with its own challenge
\* value, and no table changes.
C18_HandshakeEchoes ==
    [][\A w \in HookWorkers :
          ( /\ HeadStep(w) /\ HookPayload(w).dict
            /\ HookPayload(w).type = "url_verification" ) =>
              /\ last'.handler = "slack_events" /\ last'.status = 200
              /\ last'.reply = HookPayload(w).challenge
              /\ hook'[w] = IdleHook
              /\ UNCHANGED tables]_vars

C18_Witness ==
    /\ last.handler = "slack_events" /\ last.path = "handshake" /\ last.status = 200
    /\ get_json(last.raw).type = "url_verification"
    /\ last.reply = "ch1"
    /\ sales_entries # {} /\ slack_message_sales # {}

\* a payload of malformed shape: the body is not JSON, or JSON but no object,
\* or an event callback without event_id, without an event, with an event that
\* is no object, or with an event without channel
Malformed(payload) ==
    \/ ~payload.dict
    \/ payload.type = ""
    \/ /\ payload.type = "event_callback"
       /\ \/ payload.event_id = ""
          \/ ~payload.event.dict
          \/ payload.event = NoEvent
          \/ payload.event.channel = ""

\* C19, as claimed: an authenticated request with a payload of malformed shape
\* is answered 200 (unless the database fails), and no step of its handling
\* changes sales_entries or slack_message_sales.
C19_MalformedIsAcknowledged ==
    [][\A w \in HookWorkers :
          /\ (HeadStep(w) /\ Accepts(w) /\ Malformed(HookPayload(w))) =>
                /\ UNCHANGED <<sales_entries, slack_message_sales>>
                /\ hook'[w].pc = "idle" => last'.status = 200
          /\ ( /\ hook[w].pc \in {"remove", "mark"} /\ hook'[w] # hook[w]
               /\ Malformed(HookPayload(w)) ) =>
                /\ UNCHANGED <<sales_entries, slack_message_sales>>
                /\ (hook'[w].pc = "idle" /\ last'.path # "failed")
                      => last'.status = 200]_vars

\* C20: with two deliveries of one message_deleted envelope in flight at once,
\* each removing transaction takes away only the link row of (channel,
\* message id) and the entry it names, and nothing when that row is gone
\* already; the mark of the second does not raise, both are answered 200, and
\* slack_processed_events holds the event id once.
C20_TwinDeleteActsOnce ==
    [][\A w \in HookWorkers :
          /\ (hook[w].pc = "remove" /\ hook'[w].pc = "mark") =>
                /\ LinkRows(slack_message_sales', hook[w].channel_id, hook[w].deleted_ts) = {}
                /\ LinkRows(slack_message_sales, hook[w].channel_id, hook[w].deleted_ts) = {}
                      => UNCHANGED <<sales_entries, slack_message_sales>>
                /\ \A e \in sales_entries \ sales_entries' :
                      \E l \in LinkRows(slack_message_sales, hook[w].channel_id,
                                        hook[w].deleted_ts) : l.entry_id = e.id
                /\ (slack_message_sales \ slack_message_sales') \subseteq
                      LinkRows(slack_message_sales, hook[w].channel_id, hook[w].deleted_ts)
                /\ slack_message_sales' \subseteq slack_message_sales
                /\ sales_entries' \subseteq sales_entries
          /\ (hook[w].pc = "mark" /\ hook'[w].pc = "idle" /\ last'.path # "failed") =>
                /\ last'.status = 200
                /\ HookPayload(w).event_id # "" => HookPayload(w).event_id \in ProcessedIds'
                /\ Cardinality({r \in slack_processed_events' :
                                   r.event_id = HookPayload(w).event_id}) <= 1]_vars

C20_Witness ==
    /\ last.handler = "slack_events" /\ last.path = "marked" /\ last.status = 200
    /\ AnsweredEvent.subtype = "message_deleted"
    /\ hook["w2"].pc = "mark" /\ hook["w2"].raw = last.raw
    /\ hook["w2"].channel_id = "C1" /\ hook["w2"].deleted_ts = "100.1"
    /\ get_json(last.raw).event_id \in ProcessedIds
    /\ next_entry_id = 2 /\ sales_entries = {} /\ slack_message_sales = {}

-----------------------------------------------------------------------------
(* The geofence resolver.  app.py keeps only the stores table (lat, lon,    *)
(* radius_m) of the removed GPS feature; the resolver below follows its     *)
(* contract.  Positions lie on one meridian and are given in metres of arc  *)
(* from a reference point, so the great-circle distance of two positions is *)
(* the absolute difference.                                                 *)

MAX_ACCURACY_M == 120
MAX_AGE_S == 600

\* the configured locations: centre and radius
GeoStores == [s \in {1, 2} |-> [pos |-> IF s = 1 THEN 0 ELSE 300,
                                radius_m |-> IF s = 1 THEN SeedRadius ELSE 150]]

Distance(a, b) == Abs(a - b)
NoMatch == [store |-> NoneId, distance |-> NoneId]

Matching(reading, locs) ==
    {s \in DOMAIN locs : Distance(reading.pos, locs[s].pos) <= locs[s].radius_m}

\* faulty variant: the accuracy gate is missing
MutResolveIgnoresAccuracy(reading, locs) ==
    IF reading.age_s > MAX_AGE_S \/ Matching(reading, locs) = {} THEN NoMatch
    ELSE LET s == CHOOSE s \in Matching(reading, locs) :
                     \A t \in Matching(reading, locs) :
                        \/ Distance(reading.pos, locs[s].pos) < Distance(reading.pos, locs[t].pos)
                        \/ /\ Distance(reading.pos, locs[s].pos) = Distance(reading.pos, locs[t].pos)
                           /\ s <= t
         IN  [store |-> s, distance |-> Distance(reading.pos, locs[s].pos)]
\* the resolver: no location for a noisy or stale reading, else the nearest of
\* the locations whose radius holds the reading (the lower id on a tie)
resolve_store(reading, locs) ==
    IF reading.accuracy_m > MAX_ACCURACY_M \/ reading.age_s > MAX_AGE_S THEN NoMatch
    ELSE IF Matching(reading, locs) = {} THEN NoMatch
    ELSE LET s == CHOOSE s \in Matching(reading, locs) :
                     \A t \in Matching(reading, locs) :
                        \/ Distance(reading.pos, locs[s].pos) < Distance(reading.pos, locs[t].pos)
                        \/ /\ Distance(reading.pos, locs[s].pos) = Distance(reading.pos, locs[t].pos)
                           /\ s <= t
         IN  [store |-> s, distance |-> Distance(reading.pos, locs[s].pos)]

GeoPositions == {0 - 181, 0 - 180, 0, 100, 149, 150, 151, 180, 181, 300, 450, 451}

InitGeo ==
    /\ SLACK_SIGNING_SECRET = SlackSecret
    /\ SLACK_CHANNEL_ID = "C1"
    /\ InitState

GeoCall ==
    /\ pcall = NoCall
    /\ \E p \in GeoPositions, a \in {0, 120, 121, 150}, g \in {0, 600, 601} :
          \E reading \in {[pos |-> p, accuracy_m |-> a, age_s |-> g]} :
             pcall' = [fn |-> "resolve_store", reading |-> reading,
                       result |-> resolve_store(reading, GeoStores)]
    /\ UNCHANGED <<config, now, db_ready, tables, session, hook, page, last, vcall,
                   admin_tables, parked, toggle, goalreq>>

NextGeo == GeoCall

SpecGeo == InitGeo /\ [][NextGeo]_vars

\* the locations whose radius holds the position of the call
GeoInside ==
    {s \in DOMAIN GeoStores :
        Distance(pcall.reading.pos, GeoStores[s].pos) <= GeoStores[s].radius_m}

\* C21: a reading with an accuracy radius above the maximum or an age above the
\* maximum resolves to no location, even inside a store's radius; any other
\* reading resolves to a store exactly when some store lies within its radius_m
\* (the boundary included), and then to a store no farther than any other
\* store that matches.
C21_GatedNearestMatch ==
    pcall.fn = "resolve_store" =>
        IF pcall.reading.accuracy_m > 120 \/ pcall.reading.age_s > 600
        THEN pcall.result.store = NoneId
        ELSE /\ (pcall.result.store # NoneId) = (GeoInside # {})
             /\ pcall.result.store # NoneId =>
                   /\ pcall.result.store \in GeoInside
                   /\ \A t \in GeoInside :
                         Distance(pcall.reading.pos, GeoStores[pcall.result.store].pos)
                            <= Distance(pcall.reading.pos, GeoStores[t].pos)

\* a reading of accuracy 150 m inside the first store's radius resolves to none
C21_Witness ==
    /\ pcall.fn = "resolve_store"
    /\ pcall.reading.accuracy_m = 150 /\ pcall.reading.age_s = 0
    /\ pcall.reading.pos = 100
    /\ GeoInside = {1}
    /\ pcall.result.store = NoneId

-----------------------------------------------------------------------------
(* admin_toggle_rep, POST /admin/reps/toggle.  The handler reads the rep    *)
(* and counts the active admins, then updates the row; at READ COMMITTED    *)
(* another request's commit can fall between the two statements, so the     *)
(* handler takes two steps.                                                 *)

ActiveAdmins(tbl) == {r \in tbl : r.is_admin /\ r.active}

\* faulty variant: refuses only when no active admin is left to count
MutRefusesBelowOne(tbl, r, active_val) ==
    r.is_admin /\ ~active_val /\ Cardinality(ActiveAdmins(tbl)) < 1
\* lines 1864-1868: deactivating an admin is refused when c <= 1
LastAdminRefused(tbl, r, active_val) ==
    r.is_admin /\ ~active_val /\ Cardinality(ActiveAdmins(tbl)) <= 1

ToggleReps == {1, 2, 9}

AdminToggleHead(w, rep_id, active_val) ==
    /\ last = NoAnswer
    /\ toggle[w].pc = "idle"
    /\ db_ready' = TRUE
    /\ reps' = EnsuredReps
    /\ IF ~is_logged_in
       THEN /\ last' = Answer("admin_toggle_rep", "login_required", 302, "")
            /\ UNCHANGED toggle
       ELSE IF ~is_admin
       THEN /\ last' = Answer("admin_toggle_rep", "forbidden", 403, "")
            /\ UNCHANGED toggle
       ELSE IF ~\E r \in EnsuredReps : r.id = rep_id
       THEN /\ last' = Answer("admin_toggle_rep", "failed", 302, "Rep not found.")
            /\ UNCHANGED toggle
       ELSE IF LastAdminRefused(EnsuredReps,
                                CHOOSE r \in EnsuredReps : r.id = rep_id, active_val)
       THEN /\ last' = Answer("admin_toggle_rep", "failed", 302,
                              "Cannot deactivate the last active admin.")
            /\ UNCHANGED toggle
       ELSE /\ toggle' = [toggle EXCEPT ![w] = [pc |-> "update", rep_id |-> rep_id,
                                                active |-> active_val]]
            /\ last' = last
    /\ UNCHANGED <<config, now, session, sales_entries, next_entry_id,
                   slack_message_sales, slack_processed_events, hook, page, vcall,
                   admin_tables, parked, goalreq, pcall>>

\* UPDATE reps SET active=... WHERE id=...; commit
AdminToggleUpdate(w) ==
    /\ last = NoAnswer
    /\ toggle[w].pc = "update"
    /\ reps' = {IF r.id = toggle[w].rep_id THEN [r EXCEPT !.active = toggle[w].active]
                ELSE r : r \in reps}
    /\ toggle' = [toggle EXCEPT ![w] = IdleToggle]
    /\ last' = Answer("admin_toggle_rep", "done", 302, "Rep status updated.")
    /\ UNCHANGED <<config, now, db_ready, session, sales_entries, next_entry_id,
                   slack_message_sales, slack_processed_events, hook, page, vcall,
                   admin_tables, parked, goalreq, pcall>>

\* the second browser takes its turn: the next requests carry its cookie
SwitchBrowser ==
    /\ last = NoAnswer
    /\ page.pc = "idle"
    /\ session' = parked
    /\ parked' = session
    /\ UNCHANGED <<config, now, db_ready, tables, hook, page, last, vcall,
                   admin_tables, toggle, goalreq, pcall>>

\* logout, GET /logout
Logout ==
    /\ last = NoAnswer
    /\ page.pc = "idle"
    /\ db_ready' = TRUE
    /\ reps' = EnsuredReps
    /\ session' = NoSession
    /\ last' = Answer("logout", "done", 302, "")
    /\ UNCHANGED <<config, now, sales_entries, next_entry_id, slack_message_sales,
                   slack_processed_events, hook, page, vcall, rest>>

\* the credentials of the seeded admin and of a seeded rep
AdminLogins == {<<"Tristan", "Primo1234!">>, <<"Ricky", "Primo123!">>}

NextToggle ==
    \/ Deliver
    \/ \E c \in AdminLogins : Login(c[1], c[2])
    \/ Logout
    \/ SwitchBrowser
    \/ \E w \in HookWorkers, id \in ToggleReps, a \in BOOLEAN : AdminToggleHead(w, id, a)
    \/ \E w \in HookWorkers : AdminToggleUpdate(w)

SpecToggle == Init /\ [][NextToggle]_vars

\* C22: once the reps are seeded, whatever admin_toggle_rep requests run and
\* however their statements interleave, reps holds a row with is_admin = TRUE
\* and active = TRUE.
C22_AnActiveAdminRemains ==
    db_ready => ActiveAdmins(reps) # {}

\* a request to deactivate the only admin is refused while another toggle
\* request is between its two statements
C22_Witness ==
    /\ last.handler = "admin_toggle_rep"
    /\ last.reply = "Cannot deactivate the last active admin."
    /\ \E w \in HookWorkers : toggle[w].pc = "update"
    /\ \E r \in reps : ~r.active

-----------------------------------------------------------------------------
(* The admin operations.  Each handler opens with require_login and         *)
(* is_admin (index with action=reset redirects, the /admin routes abort     *)
(* with 403); both read the session, not the reps table.                    *)

\* faulty variant: any logged-in session passes
MutGateLoginOnly == IF ~is_logged_in THEN "login_required" ELSE "ok"
\* require_login, then "if not is_admin(): abort(403)"
require_admin ==
    IF ~is_logged_in THEN "login_required"
    ELSE IF ~is_admin THEN "forbidden" ELSE "ok"

GateAnswer(handler) ==
    Answer(handler, require_admin, IF require_admin = "forbidden" THEN 403 ELSE 302, "")

DEFAULT_WEEKLY_GOAL == 50

\* set_week_goal_qty raises ValueError
SetGoalRaises(goal_qty) == goal_qty <= 0

\* set_week_goal_qty: INSERT ... ON CONFLICT (week_start) DO UPDATE
set_week_goal_qty(tbl, week_start, goal_qty) ==
    {g \in tbl : g.week_start # week_start}
    \cup {[week_start |-> week_start, goal_qty |-> goal_qty]}

\* admin_goal, POST /admin/goal
AdminGoal(week_raw, goal_raw) ==
    /\ last = NoAnswer
    /\ db_ready' = TRUE
    /\ reps' = EnsuredReps
    /\ IF require_admin # "ok"
       THEN /\ last' = GateAnswer("admin_goal")
            /\ UNCHANGED weekly_goals
       ELSE IF ~ParseInt(goal_raw).ok \/ SetGoalRaises(ParseInt(goal_raw).val)
       THEN /\ last' = Answer("admin_goal", "failed", 302, "Goal must be a whole number > 0.")
            /\ UNCHANGED weekly_goals
       ELSE /\ weekly_goals' = set_week_goal_qty(weekly_goals, SelectedWeek(week_raw),
                                                 ParseInt(goal_raw).val)
            /\ last' = Answer("admin_goal", "done", 302, "Weekly goal saved.")
    /\ UNCHANGED <<config, now, session, sales_entries, next_entry_id,
                   slack_message_sales, slack_processed_events, hook, page, vcall,
                   radius_m, rep_day_locations, parked, toggle, goalreq, pcall>>

\* admin_set_location, POST /admin/set-location; rep_day_locations.rep_id
\* references reps(id), its primary key is (rep_id, work_date)
AdminSetLocation(rep_id, loc) ==
    /\ last = NoAnswer
    /\ db_ready' = TRUE
    /\ reps' = EnsuredReps
    /\ IF require_admin # "ok"
       THEN /\ last' = GateAnswer("admin_set_location")
            /\ UNCHANGED rep_day_locations
       ELSE IF ~\E r \in EnsuredReps : r.id = rep_id
       THEN /\ last' = Answer("admin_set_location", "failed", 302, "Could not save location.")
            /\ UNCHANGED rep_day_locations
       ELSE /\ rep_day_locations' =
                  {l \in rep_day_locations :
                      ~(l.rep_id = rep_id /\ l.work_date = local_today)}
                  \cup {[rep_id |-> rep_id, work_date |-> local_today,
                         location_text |-> loc, updated_by |-> session.rep_id]}
            /\ last' = Answer("admin_set_location", "done", 302, "Today location saved.")
    /\ UNCHANGED <<config, now, session, sales_entries, next_entry_id,
                   slack_message_sales, slack_processed_events, hook, page, vcall,
                   weekly_goals, radius_m, parked, toggle, goalreq, pcall>>

\* admin_add_rep, POST /admin/reps/add
AdminAddRep(username, password, is_admin_flag) ==
    /\ last = NoAnswer
    /\ db_ready' = TRUE
    /\ IF require_admin # "ok"
       THEN /\ last' = GateAnswer("admin_add_rep")
            /\ reps' = EnsuredReps
       ELSE IF username = "" \/ password = ""
       THEN /\ last' = Answer("admin_add_rep", "failed", 302, "Username + password required.")
            /\ reps' = EnsuredReps
       ELSE IF \E r \in EnsuredReps : r.username = username
       THEN /\ last' = Answer("admin_add_rep", "failed", 302, "That username already exists.")
            /\ reps' = EnsuredReps
       ELSE /\ reps' = EnsuredReps \cup
                  {RepRow(Cardinality(EnsuredReps) + 1, username, password, is_admin_flag)}
            /\ last' = Answer("admin_add_rep", "done", 302, "Added rep.")
    /\ UNCHANGED <<config, now, session, sales_entries, next_entry_id,
                   slack_message_sales, slack_processed_events, hook, page, vcall, rest>>

\* admin_reset_password, POST /admin/reps/reset-password
AdminResetPassword(rep_id, new_pw) ==
    /\ last = NoAnswer
    /\ db_ready' = TRUE
    /\ IF require_admin # "ok"
       THEN /\ last' = GateAnswer("admin_reset_password")
            /\ reps' = EnsuredReps
       ELSE IF new_pw = ""
       THEN /\ last' = Answer("admin_reset_password", "failed", 302, "New password required.")
            /\ reps' = EnsuredReps
       ELSE /\ reps' = {IF r.id = rep_id
                        THEN [r EXCEPT !.password_hash = hash_password(new_pw)]
                        ELSE r : r \in EnsuredReps}
            /\ last' = Answer("admin_reset_password", "done", 302, "Password reset.")
    /\ UNCHANGED <<config, now, session, sales_entries, next_entry_id,
                   slack_message_sales, slack_processed_events, hook, page, vcall, rest>>

\* admin_store_radius, POST /admin/store-radius
AdminStoreRadius(store_id, radius) ==
    /\ last = NoAnswer
    /\ db_ready' = TRUE
    /\ reps' = EnsuredReps
    /\ IF require_admin # "ok"
       THEN /\ last' = GateAnswer("admin_store_radius")
            /\ UNCHANGED radius_m
       ELSE IF radius < 50 \/ radius > 1000
       THEN /\ last' = Answer("admin_store_radius", "failed", 302,
                              "Radius must be between 50 and 1000 meters.")
            /\ UNCHANGED radius_m
       ELSE /\ radius_m' = [s \in DOMAIN radius_m |->
                               IF s = store_id THEN radius ELSE radius_m[s]]
            /\ last' = Answer("admin_store_radius", "done", 302, "Store radius saved.")
    /\ UNCHANGED <<config, now, session, sales_entries, next_entry_id,
                   slack_message_sales, slack_processed_events, hook, page, vcall,
                   weekly_goals, rep_day_locations, parked, toggle, goalreq, pcall>>

\* faulty variant: only a negative qty is refused
MutUpdateAllowsZero(qty, store_id) ==
    qty < 0 \/ (store_id # NoneId /\ store_id \notin DOMAIN Stores)
\* update_entry raises ValueError: qty <= 0, or a store that does not exist
UpdateRaises(qty, store_id) ==
    qty <= 0 \/ (store_id # NoneId /\ store_id \notin DOMAIN Stores)

\* update_entry: UPDATE sales_entries SET qty, store_id, note WHERE id
update_entry(entries, entry_id, qty, store_id) ==
    {IF e.id = entry_id
     THEN [e EXCEPT !.qty = qty, !.store_id = store_id,
                    !.note = IF store_id = NoneId THEN "" ELSE Stores[store_id]]
     ELSE e : e \in entries}

\* admin_update, POST /admin/update
AdminUpdate(entry_id, qty, store_id) ==
    /\ last = NoAnswer
    /\ db_ready' = TRUE
    /\ reps' = EnsuredReps
    /\ IF require_admin # "ok"
       THEN /\ last' = GateAnswer("admin_update")
            /\ UNCHANGED sales_entries
       ELSE IF UpdateRaises(qty, store_id)
       THEN /\ last' = Answer("admin_update", "failed", 302,
                              "Could not save. Qty must be > 0 and Store must be valid.")
            /\ UNCHANGED sales_entries
       ELSE /\ sales_entries' = update_entry(sales_entries, entry_id, qty, store_id)
            /\ last' = Answer("admin_update", "done", 302, "Saved changes.")
    /\ UNCHANGED <<config, now, session, next_entry_id, slack_message_sales,
                   slack_processed_events, hook, page, vcall, rest>>

AdminHandlers == {"index_reset", "admin_goal", "admin_set_location", "admin_add_rep",
                  "admin_toggle_rep", "admin_reset_password", "admin_store_radius",
                  "admin_update", "admin_delete"}


NextAdmin ==
    \/ Deliver
    \/ \E c \in AdminLogins : Login(c[1], c[2])
    \/ IndexAdd(<<>>, "", 1, 1)
    \/ AddPost(PostedMessages)
    \/ AddLink
    \/ IndexReset(<<>>)
    \/ \E g \in {<<"0">>, <<"6", "0">>} : AdminGoal(<<>>, g)
    \/ \E id \in {2, 9} : AdminSetLocation(id, "Costco")
    \/ \E u \in {"", "Ada"} : AdminAddRep(u, "pw", TRUE)
    \/ \E a \in BOOLEAN : AdminToggleHead("w1", 2, a)
    \/ AdminToggleUpdate("w1")
    \/ \E p \in {"", "new"} : AdminResetPassword(2, p)
    \/ \E r \in {49, 200} : AdminStoreRadius(1, r)
    \/ \E q \in {0, 2} : AdminUpdate(1, q, 1)
    \/ AdminDelete(1)

SpecAdmin == Init /\ [][NextAdmin]_vars

\* a step in which an admin operation's gate answers or lets the request in
AdminGateStep ==
    /\ last = NoAnswer
    /\ \A w \in HookWorkers : toggle[w].pc = "idle"
    /\ \/ last'.handler \in AdminHandlers
       \/ \E w \in HookWorkers : toggle'[w].pc = "update"

\* C23: a request for an admin operation (week reset, set goal, set rep
\* location, add rep, toggle rep, reset password, set store radius, update
\* entry, delete entry) whose session is not a logged-in admin's is redirected
\* to the login page when not logged in and refused when logged in without
\* is_admin, and changes no table (the reps are only seeded if they were not)
\* and lets no toggle request in.
C23_AdminOnly ==
    [][(AdminGateStep /\ ~(is_logged_in /\ is_admin)) =>
          /\ last'.handler \in AdminHandlers
          /\ last'.path = IF ~is_logged_in THEN "login_required" ELSE "forbidden"
          /\ reps' = EnsuredReps
          /\ UNCHANGED <<sales_entries, next_entry_id, slack_message_sales,
                         slack_processed_events, admin_tables, toggle>>]_vars

\* a logged-in rep without is_admin has just been refused the deletion of an
\* entry that exists
C23_Witness ==
    /\ last.handler = "admin_delete" /\ last.path = "forbidden"
    /\ is_logged_in /\ ~is_admin
    /\ \E e \in sales_entries : e.id = 1

-----------------------------------------------------------------------------
(* index, GET /: the page shows get_week_goal_qty(selected_wk_start), which *)
(* reads the goal and, when there is none, inserts the default row; the     *)
(* SELECT and the INSERT are two statements.                                *)

\* faulty variant: the default replaces a goal stored in the meantime
MutDefaultOverwrites(tbl, week_start) ==
    {g \in tbl : g.week_start # week_start}
    \cup {[week_start |-> week_start, goal_qty |-> DEFAULT_WEEKLY_GOAL]}
\* INSERT INTO weekly_goals ... ON CONFLICT (week_start) DO NOTHING
insert_default_goal(tbl, week_start) ==
    IF \E g \in tbl : g.week_start = week_start THEN tbl
    ELSE tbl \cup {[week_start |-> week_start, goal_qty |-> DEFAULT_WEEKLY_GOAL]}

GoalCall(week_start, result) ==
    [fn |-> "get_week_goal_qty", week_start |-> week_start, result |-> result]

IndexGetHead(week_raw) ==
    /\ last = NoAnswer
    /\ goalreq.pc = "idle"
    /\ db_ready' = TRUE
    /\ reps' = EnsuredReps
    /\ IF ~is_logged_in
       THEN /\ last' = Answer("index", "login_required", 302, "")
            /\ UNCHANGED <<goalreq, pcall>>
       ELSE \E rows \in {{g \in weekly_goals : g.week_start = SelectedWeek(week_raw)}} :
               IF rows # {}
               THEN /\ \E g \in rows : pcall' = GoalCall(SelectedWeek(week_raw), g.goal_qty)
                    /\ last' = Answer("index", "page", 200, "")
                    /\ UNCHANGED goalreq
               ELSE /\ goalreq' = [pc |-> "insert", week_start |-> SelectedWeek(week_raw)]
                    /\ last' = last
                    /\ UNCHANGED pcall
    /\ UNCHANGED <<config, now, session, sales_entries, next_entry_id,
                   slack_message_sales, slack_processed_events, hook, page, vcall,
                   admin_tables, parked, toggle>>

IndexGetInsert ==
    /\ last = NoAnswer
    /\ goalreq.pc = "insert"
    /\ weekly_goals' = insert_default_goal(weekly_goals, goalreq.week_start)
    /\ pcall' = GoalCall(goalreq.week_start, DEFAULT_WEEKLY_GOAL)
    /\ goalreq' = IdleGoal
    /\ last' = Answer("index", "page", 200, "")
    /\ UNCHANGED <<config, now, db_ready, tables, session, hook, page, vcall,
                   radius_m, rep_day_locations, parked, toggle>>

-----------------------------------------------------------------------------
(* The sales entries under the requests of a rep and of an admin.  Slack is *)
(* out of reach here: every chat.postMessage fails, so no entry gets        *)
(* coordinates.                                                             *)

\* the week field: absent, a Monday, a Wednesday, the Monday after, no date
WeekInputs == {<<>>,
               <<"2", "0", "2", "4", "-", "0", "1", "-", "0", "1">>,
               <<"2", "0", "2", "4", "-", "0", "1", "-", "0", "3">>,
               <<"2", "0", "2", "4", "-", "0", "2", "-", "3", "0">>}
\* store_id: a seeded store, an unknown one, the empty field (None)
StoreInputs == {1, 9, NoneId}
QtyInputs == {0 - 1, 0, 1}

NextEntries ==
    \/ Deliver
    \/ \E c \in AdminLogins : Login(c[1], c[2])
    \/ \E q \in QtyInputs, s \in StoreInputs : IndexAdd(<<>>, "", q, s)
    \/ AddPost({})
    \/ \E id \in 1..MaxEntries, q \in {0, 2}, s \in {1, NoneId} : AdminUpdate(id, q, s)
    \/ \E id \in 1..MaxEntries : AdminDelete(id)
    \/ IndexReset(<<>>)

SpecEntries == Init /\ [][NextEntries]_vars

\* C24: a logged-in POST of action=add with the store_id field empty creates
\* no entry and is answered with the failure message of the add form.
C24_EmptyStoreIsRefused ==
    [][\A q \in QtyInputs :
          (is_logged_in /\ IndexAdd(<<>>, "", q, NoneId)) =>
              /\ UNCHANGED <<sales_entries, next_entry_id>>
              /\ last' = Answer("index_add", "failed", 302, AddFailed)]_vars

\* the qty of the entry with this id, 0 when there is none
QtyOf(entries, id) ==
    IF \E e \in entries : e.id = id THEN (CHOOSE e \in entries : e.id = id).qty ELSE 0

\* C25: every row of sales_entries has qty > 0; a step leaves sales_entries as
\* it is when it is an add or an update with qty <= 0; and the qty of a stored
\* entry changes only in a successful admin_update.
C25_QtyPositive ==
    /\ [](\A e \in sales_entries : e.qty > 0)
    /\ [][/\ \A q \in {0 - 1, 0}, s \in StoreInputs :
                IndexAdd(<<>>, "", q, s) => UNCHANGED sales_entries
          /\ \A id \in 1..MaxEntries, s \in {1, NoneId} :
                AdminUpdate(id, 0, s) => UNCHANGED sales_entries
          /\ \A id \in 1..MaxEntries :
                (QtyOf(sales_entries, id) # 0 /\ QtyOf(sales_entries', id) # 0
                 /\ QtyOf(sales_entries', id) # QtyOf(sales_entries, id))
                   => last' = Answer("admin_update", "done", 302, "Saved changes.")]_vars

\* an update with qty 0 has just been refused while the entry keeps its qty,
\* after an earlier update had changed it to 2
C25_Witness ==
    /\ last.handler = "admin_update" /\ last.path = "failed"
    /\ is_logged_in /\ is_admin
    /\ \E e \in sales_entries : e.id = 1 /\ e.qty = 2

-----------------------------------------------------------------------------
(* The weeks: get_week_start on its own, and the requests that store a row  *)
(* under a week (add a sale, set the goal, show the page of a week).        *)

\* the dates put to get_week_start: three weeks around local_today
WeekDays == (local_today - 9)..(local_today + 11)

WeekCall ==
    /\ last = NoAnswer
    /\ \E d \in WeekDays :
          pcall' = [fn |-> "get_week_start", d |-> d, result |-> get_week_start(d)]
    /\ UNCHANGED <<config, now, db_ready, tables, session, hook, page, last, vcall,
                   admin_tables, parked, toggle, goalreq>>

NextWeeks ==
    \/ Deliver
    \/ \E c \in AdminLogins : Login(c[1], c[2])
    \/ \E w \in WeekInputs : IndexAdd(w, "", 1, 1)
    \/ AddPost({})
    \/ \E w \in WeekInputs, g \in {<<"0">>, <<"6", "0">>} : AdminGoal(w, g)
    \/ \E w \in WeekInputs : IndexGetHead(w)
    \/ IndexGetInsert
    \/ WeekCall

SpecWeeks == Init /\ [][NextWeeks]_vars

\* C26: get_week_start maps a date to the Monday of its week (not after the
\* date, at most 6 days before it, and a fixed point), and every week_start
\* stored in sales_entries and in weekly_goals is a Monday.
C26_StoredWeeksAreMondays ==
    /\ pcall.fn = "get_week_start" =>
          /\ pcall.result <= pcall.d
          /\ pcall.d - pcall.result \in 0..6
          /\ weekday(pcall.result) = 0
          /\ get_week_start(pcall.result) = pcall.result
    /\ \A e \in sales_entries : weekday(e.week_start) = 0
    /\ \A g \in weekly_goals : weekday(g.week_start) = 0

-----------------------------------------------------------------------------
(* The weekly goals: admin_goal and the page of a week, whose               *)
(* get_week_goal_qty can have a set_week_goal_qty fall between its SELECT   *)
(* and its INSERT.                                                          *)

GoalWeeks == {<<>>, <<"2", "0", "2", "4", "-", "0", "1", "-", "0", "8">>}
GoalValues == {<<>>, <<"0">>, <<"-", "5">>, <<"6", "0">>, <<"7", "0">>}

NextGoals ==
    \/ Deliver
    \/ \E c \in AdminLogins : Login(c[1], c[2])
    \/ \E w \in GoalWeeks, g \in GoalValues : AdminGoal(w, g)
    \/ \E w \in GoalWeeks : IndexGetHead(w)
    \/ IndexGetInsert

SpecGoals == Init /\ [][NextGoals]_vars

GoalRows(tbl, week_start) == {g \in tbl : g.week_start = week_start}

\* C30: get_week_goal_qty returns the goal stored for the week when its SELECT
\* finds one, which is the value of the last successful set_week_goal_qty for
\* that week; when it finds none it returns 50 and leaves behind a row for the
\* week without changing any row that is there, one stored in the meantime
\* included.  set_week_goal_qty with a value <= 0 leaves weekly_goals
\* unchanged, every stored goal_qty is > 0, and a week has at most one row.
C30_GoalReadsLastSet ==
    /\ [](\A g \in weekly_goals :
             g.goal_qty > 0 /\ GoalRows(weekly_goals, g.week_start) = {g})
    /\ [][/\ (last = NoAnswer /\ last'.handler = "index" /\ last'.path = "page") =>
                IF goalreq.pc = "insert"
                THEN /\ pcall'.result = 50
                     /\ weekly_goals \subseteq weekly_goals'
                     /\ GoalRows(weekly_goals', pcall'.week_start) # {}
                ELSE /\ [week_start |-> pcall'.week_start, goal_qty |-> pcall'.result]
                           \in weekly_goals
                     /\ UNCHANGED weekly_goals
          /\ (goalreq.pc = "idle" /\ goalreq'.pc = "insert") =>
                GoalRows(weekly_goals, goalreq'.week_start) = {}
          /\ \A w \in GoalWeeks, g \in GoalValues :
                (is_logged_in /\ is_admin /\ AdminGoal(w, g)) =>
                    IF ParseInt(g).ok /\ ParseInt(g).val > 0
                    THEN GoalRows(weekly_goals', SelectedWeek(w)) =
                            {[week_start |-> SelectedWeek(w), goal_qty |-> ParseInt(g).val]}
                    ELSE UNCHANGED weekly_goals
          /\ (\E g \in weekly_goals : g \notin weekly_goals') =>
                last' = Answer("admin_goal", "done", 302, "Weekly goal saved.")]_vars

\* the page of a week was answered with the default 50 although a goal of 60
\* had been stored between the SELECT and the INSERT; the stored goal stands
C30_Witness ==
    /\ last.handler = "index" /\ last.path = "page"
    /\ pcall.fn = "get_week_goal_qty" /\ pcall.result = 50
    /\ [week_start |-> pcall.week_start, goal_qty |-> 60] \in weekly_goals

-----------------------------------------------------------------------------
(* Two browsers: a rep and an admin each hold a session while reps are      *)
(* activated and deactivated.                                               *)

NextSessions ==
    \/ Deliver
    \/ \E c \in AdminLogins : Login(c[1], c[2])
    \/ SwitchBrowser
    \/ \E a \in BOOLEAN : AdminToggleHead("w1", 2, a)
    \/ AdminToggleUpdate("w1")
    \/ \E r \in {"", "Sohaib"} : IndexAdd(<<>>, r, 1, 1)
    \/ AddPost({})
    \/ AdminDelete(1)

SpecSessions == Init /\ [][NextSessions]_vars

\* the session's flags are those of an active row of reps
SessionMatchesRow ==
    \E r \in EnsuredReps :
        r.id = session.rep_id /\ r.active /\ r.is_admin = session.is_admin

\* a request adds a sale, or an admin operation is let past its gate
PrivilegedStep ==
    \/ next_entry_id' # next_entry_id
    \/ /\ last = NoAnswer
       /\ \A w \in HookWorkers : toggle[w].pc = "idle"
       /\ \/ /\ last'.handler \in AdminHandlers
             /\ last'.path \notin {"login_required", "forbidden"}
          \/ \E w \in HookWorkers : toggle'[w].pc = "update"

\* C27: a request adds a sale or gets past the gate of an admin operation only
\* with a session whose rep is active in reps and whose is_admin flag is the
\* row's: the session of a rep deactivated since the login is of no use.
C27_SessionFollowsRow ==
    [][PrivilegedStep => SessionMatchesRow]_vars

-----------------------------------------------------------------------------
(* login against reps that are activated and deactivated and whose         *)
(* password is reset, with right and wrong passwords and an unknown         *)
(* username.                                                                *)

TryNames == {"Tristan", "Ricky", "nobody"}
TryPasswords == {"Primo1234!", "Primo123!", "new"}

NextLogin ==
    \/ Deliver
    \/ \E u \in TryNames, p \in TryPasswords : Login(u, p)
    \/ Logout
    \/ \E a \in BOOLEAN : AdminToggleHead("w1", 2, a)
    \/ AdminToggleUpdate("w1")
    \/ \E p \in {"", "new"} : AdminResetPassword(2, p)

SpecLogin == Init /\ [][NextLogin]_vars

\* the rows a login with these credentials is good for
Admits(tbl, username, password) ==
    {r \in tbl : r.username = username /\ r.active
                 /\ r.password_hash = hash_password(password)}

\* C28: a POST to login sets the session to logged_in with rep_id, rep_name and
\* is_admin of the rep's row when the username exists, the rep is active and
\* the password is the row's; any other login leaves the session as it was and
\* changes no table (the reps are only seeded if they were not).
C28_LoginCopiesTheRow ==
    [][\A u \in TryNames, p \in TryPasswords :
          Login(u, p) =>
              IF Admits(EnsuredReps, u, p) # {}
              THEN \E r \in Admits(EnsuredReps, u, p) :
                      session' = [logged_in |-> TRUE, rep_id |-> r.id,
                                  rep_name |-> r.username, is_admin |-> r.is_admin]
              ELSE /\ session' = session
                   /\ last'.path = "failed"
                   /\ reps' = EnsuredReps
                   /\ UNCHANGED <<sales_entries, next_entry_id, slack_message_sales,
                                  slack_processed_events, admin_tables>>]_vars

\* a login has just failed while the admin's session stands and Ricky is inactive
C28_Witness ==
    /\ last.handler = "login" /\ last.path = "failed"
    /\ session.logged_in /\ session.rep_name = "Tristan"
    /\ \E r \in reps : r.username = "Ricky" /\ ~r.active

-----------------------------------------------------------------------------
\* the request of worker w carries an event of a channel other than the
\* configured one
OtherChannel(w) ==
    /\ Verifies(w) /\ HookEvent(w).dict
    /\ SLACK_CHANNEL_ID # "" /\ Strip(HookEvent(w).channel) # SLACK_CHANNEL_ID

\* C29: with SLACK_CHANNEL_ID configured, no step of slack_events on an event
\* of another channel changes sales_entries or slack_message_sales, whatever
\* the event's subtype and whatever link rows there are; an authenticated
\* first delivery goes straight to marking the event, and the handler then
\* answers 200 with the event's identifier in slack_processed_events, unless
\* the INSERT of the mark itself fails (500, nothing marked).
C29_OtherChannelIsOnlyMarked ==
    [][\A w \in HookWorkers :
          (HandlerStep(w) /\ OtherChannel(w)) =>
              /\ UNCHANGED <<sales_entries, next_entry_id, slack_message_sales>>
              /\ hook'[w].pc # "remove"
              /\ (HeadStep(w) /\ Accepts(w) /\ HookPayload(w).event_id \notin ProcessedIds)
                    => hook'[w].pc = "mark"
              /\ (hook[w].pc = "mark" /\ hook'[w].pc = "idle") =>
                    \/ /\ last'.status = 200
                       /\ HookPayload(w).event_id # "" =>
                             HookPayload(w).event_id \in ProcessedIds'
                    \/ /\ last'.status = 500
                       /\ UNCHANGED slack_processed_events]_vars

\* a message_deleted event of channel C2 has been acknowledged and marked
\* while the link row of the message it names, and the linked entry, stand
C29_Witness ==
    /\ SLACK_CHANNEL_ID = "C1"
    /\ last.handler = "slack_events" /\ last.path = "marked" /\ last.status = 200
    /\ AnsweredEvent.subtype = "message_deleted"
    /\ Strip(AnsweredEvent.channel) = "C2"
    /\ get_json(last.raw).event_id \in ProcessedIds
    /\ \E l \in LinkRows(slack_message_sales, "C2", DeletedTs(AnsweredEvent)) :
          \E e \in sales_entries : e.id = l.entry_id

=============================================================================
